---- MODULE Spec2Model ----
(***************************************************************************)
(* Model of the columnar serialization pipeline of src/src/optimization.py *)
(* (encode, budgeted split, persist, merge, decode).                       *)
(*                                                                         *)
(* Python strings are sequences of one-character strings, so that len(),   *)
(* JSON escaping and file-name ordering are computed and not assumed.      *)
(* Row indices keep Python's 0-based convention; TLA+ sequences are        *)
(* 1-based, hence the "+ 1" at each list subscript.                        *)
(***************************************************************************)
EXTENDS Integers, Sequences, FiniteSets, TLC

\* ---------------------------------------------------------------- bounds
MaxLen == 3       \* greatest length of a freely chosen input sequence
MaxRows == 10     \* greatest length of a periodic input sequence

\* ------------------------------------------------------ program constants
DefaultMaxTokens == 500000   \* default of max_tokens
RowOverhead == 10            \* "+10 for metadata overhead in row"

\* ---------------------------------------------------------------- strings
Digit == <<"0", "1", "2", "3", "4", "5", "6", "7", "8", "9">>

DigitVal(c) == (CHOOSE d \in 1..10 : Digit[d] = c) - 1

IsDigit(c) == \E d \in 1..10 : Digit[d] = c

\* str(n) for n >= 0, as the f-string of save_chunk formats part_num
RECURSIVE IntToStr(_)
IntToStr(n) == IF n < 10 THEN <<Digit[n + 1]>>
               ELSE IntToStr(n \div 10) \o <<Digit[(n % 10) + 1]>>

\* "%0<w>d" % n
RECURSIVE Pad(_, _)
Pad(n, w) == IF w = 0 THEN <<>> ELSE Pad(n \div 10, w - 1) \o <<Digit[(n % 10) + 1]>>

\* int(s) for a sequence of decimal digits
RECURSIVE ToNat(_)
ToNat(s) == IF s = <<>> THEN 0
            ELSE 10 * ToNat(SubSeq(s, 1, Len(s) - 1)) + DigitVal(s[Len(s)])

AllDigits(s) == \A k \in 1..Len(s) : IsDigit(s[k])

\* sum(s), by halves to keep the evaluation shallow
RECURSIVE SumSeq(_)
SumSeq(s) ==
    IF s = <<>> THEN 0
    ELSE IF Len(s) = 1 THEN s[1]
    ELSE LET h == Len(s) \div 2
         IN  SumSeq(SubSeq(s, 1, h)) + SumSeq(SubSeq(s, h + 1, Len(s)))

\* concatenation of a sequence of sequences, by halves
RECURSIVE Flatten(_)
Flatten(ss) ==
    IF ss = <<>> THEN <<>>
    ELSE IF Len(ss) = 1 THEN ss[1]
    ELSE LET h == Len(ss) \div 2
         IN  Flatten(SubSeq(ss, 1, h)) \o Flatten(SubSeq(ss, h + 1, Len(ss)))

\* ------------------------------------------------------------- timestamps
\* datetime.isoformat() of a naive datetime
isoformat_nomicro(dt) ==
    Pad(dt.year, 4) \o <<"-">> \o Pad(dt.month, 2) \o <<"-">> \o Pad(dt.day, 2)
    \o <<"T">> \o Pad(dt.hour, 2) \o <<":">> \o Pad(dt.minute, 2)
    \o <<":">> \o Pad(dt.second, 2)

isoformat(dt) ==
    Pad(dt.year, 4) \o <<"-">> \o Pad(dt.month, 2) \o <<"-">> \o Pad(dt.day, 2)
    \o <<"T">> \o Pad(dt.hour, 2) \o <<":">> \o Pad(dt.minute, 2)
    \o <<":">> \o Pad(dt.second, 2)
    \o (IF dt.microsecond = 0 THEN <<>> ELSE <<".">> \o Pad(dt.microsecond, 6))

\* datetime.fromisoformat(): YYYY-MM-DD, one separator character, then
\* HH[:MM[:SS[.fff[fff]]]]; "ValueError" for anything else
fromisoformat(s) ==
    LET n  == Len(s)
        f(a, b) == SubSeq(s, a, b)
        dateOk == /\ n >= 10
                  /\ AllDigits(f(1, 4)) /\ s[5] = "-"
                  /\ AllDigits(f(6, 7)) /\ s[8] = "-"
                  /\ AllDigits(f(9, 10))
        hasH  == n >= 13
        hasM  == n >= 16
        hasS  == n >= 19
        hasF  == n >= 21
        timeOk == /\ n \in {10, 13, 16, 19, 23, 26}
                  /\ hasH => AllDigits(f(12, 13))
                  /\ hasM => (s[14] = ":" /\ AllDigits(f(15, 16)))
                  /\ hasS => (s[17] = ":" /\ AllDigits(f(18, 19)))
                  /\ hasF => (s[20] = "." /\ AllDigits(f(21, n)))
        frac == IF ~hasF THEN 0
                ELSE IF n = 23 THEN 1000 * ToNat(f(21, 23)) ELSE ToNat(f(21, 26))
    IN  IF dateOk /\ timeOk
        THEN [year |-> ToNat(f(1, 4)), month |-> ToNat(f(6, 7)),
              day |-> ToNat(f(9, 10)),
              hour |-> IF hasH THEN ToNat(f(12, 13)) ELSE 0,
              minute |-> IF hasM THEN ToNat(f(15, 16)) ELSE 0,
              second |-> IF hasS THEN ToNat(f(18, 19)) ELSE 0,
              microsecond |-> frac]
        ELSE [error |-> "ValueError"]

\* ------------------------------------------------------------------ inputs
WhatsApp == <<"W", "h", "a", "t", "s", "A", "p", "p">>
Instagram == <<"I", "n", "s", "t", "a", "g", "r", "a", "m">>
Alice == <<"A", "l", "i", "c", "e">>
Bob == <<"B", "o", "b">>
Unknown == <<"U", "n", "k", "n", "o", "w", "n">>

T1 == [year |-> 2024, month |-> 2, day |-> 1, hour |-> 14, minute |-> 5,
       second |-> 0, microsecond |-> 0]
T2 == [year |-> 2024, month |-> 2, day |-> 3, hour |-> 10, minute |-> 15,
       second |-> 0, microsecond |-> 0]
T3 == [year |-> 2024, month |-> 3, day |-> 5, hour |-> 23, minute |-> 59,
       second |-> 7, microsecond |-> 123000]

Hello == <<"H", "e", "l", "l", "o">>
HelloThere == <<"H", "e", "l", "l", "o", "\n", "t", "h", "e", "r", "e">>
SayHi == <<"s", "a", "y", " ", "\"", "h", "i", "\"">>
LongText == [k \in 1..165 |-> "x"]

\* UnifiedMessage(timestamp, platform, sender, content)
UnifiedMessage(t, p, s, c) ==
    [timestamp |-> t, platform |-> p, sender |-> s, content |-> c]

Msgs == { UnifiedMessage(T1, WhatsApp, Alice, Hello),
          UnifiedMessage(T2, WhatsApp, Bob, HelloThere),
          UnifiedMessage(T3, Instagram, Alice, SayHi),
          UnifiedMessage(T3, Instagram, Bob, <<>>),
          UnifiedMessage(T2, WhatsApp, Alice, LongText) }

\* every sequence of at most MaxLen messages
FreeSeqs == UNION { [1..k -> Msgs] : k \in 0..MaxLen }

\* the first n messages of the periodic sequence with period b
Cycle(b, n) == [k \in 1..n |-> b[((k - 1) % Len(b)) + 1]]

\* longer sequences repeat one message or alternate two
PeriodicSeqs ==
    { Cycle(b, n) : b \in [1..1 -> Msgs] \cup [1..2 -> Msgs], n \in 0..MaxRows }

Inputs == FreeSeqs \cup PeriodicSeqs

Budgets == {20, 150, 170, DefaultMaxTokens}

\* --------------------------------------------------------------- encoder
Columns == << <<"t", "i", "m", "e", "s", "t", "a", "m", "p">>,
              <<"p", "l", "a", "t", "f", "o", "r", "m", "_", "i", "d", "x">>,
              <<"s", "e", "n", "d", "e", "r", "_", "i", "d", "x">>,
              <<"c", "o", "n", "t", "e", "n", "t">> >>

\* the dictionary lookup "map[key]" for a key known to be present
IndexOf(lst, key) == (CHOOSE k \in 1..Len(lst) : lst[k] = key) - 1

InList(lst, key) == \E k \in 1..Len(lst) : lst[k] = key

\* one iteration of the loop of convert_to_optimized_format; acc holds
\* platforms, senders and data (platform_map / sender_map are the inverse
\* of the two lists: map[x] = position at which x was appended)
ConvertStep_swapidx(acc, msg) ==
    LET platforms == IF InList(acc.platforms, msg.platform) THEN acc.platforms
                     ELSE Append(acc.platforms, msg.platform)
        senders   == IF InList(acc.senders, msg.sender) THEN acc.senders
                     ELSE Append(acc.senders, msg.sender)
        p_idx == IndexOf(platforms, msg.platform)
        s_idx == IndexOf(senders, msg.sender)
    IN  [platforms |-> platforms, senders |-> senders,
         data |-> Append(acc.data,
                         <<isoformat(msg.timestamp), s_idx, p_idx, msg.content>>)]

ConvertStep_alwaysappend(acc, msg) ==
    LET platforms == Append(acc.platforms, msg.platform)
        senders   == Append(acc.senders, msg.sender)
    IN  [platforms |-> platforms, senders |-> senders,
         data |-> Append(acc.data,
                         <<isoformat(msg.timestamp), Len(acc.platforms),
                           Len(acc.senders), msg.content>>)]

ConvertStep(acc, msg) ==
    LET platforms == IF InList(acc.platforms, msg.platform) THEN acc.platforms
                     ELSE Append(acc.platforms, msg.platform)
        senders   == IF InList(acc.senders, msg.sender) THEN acc.senders
                     ELSE Append(acc.senders, msg.sender)
        p_idx == IndexOf(platforms, msg.platform)
        s_idx == IndexOf(senders, msg.sender)
    IN  [platforms |-> platforms, senders |-> senders,
         data |-> Append(acc.data,
                         <<isoformat(msg.timestamp), p_idx, s_idx, msg.content>>)]

RECURSIVE ConvertLoop(_, _)
ConvertLoop(acc, msgs) ==
    IF msgs = <<>> THEN acc ELSE ConvertLoop(ConvertStep(acc, Head(msgs)), Tail(msgs))

convert_to_optimized_format(msgs) ==
    LET r == ConvertLoop([platforms |-> <<>>, senders |-> <<>>, data |-> <<>>], msgs)
    IN  [meta |-> [platforms |-> r.platforms, senders |-> r.senders],
         columns |-> Columns,
         data |-> r.data]

\* --------------------------------------------------------------- decoder
\* variant: only the upper end of the range is tested, so that a negative
\* index counts from the end of the list as Python indexing does
DecodeRow_upperonly(platforms, senders, row) ==
    LET p_idx == row[2]
        s_idx == row[3]
    IN  UnifiedMessage(fromisoformat(row[1]),
                       IF p_idx < Len(platforms) /\ 0 - p_idx <= Len(platforms)
                       THEN platforms[((p_idx + Len(platforms)) % Len(platforms)) + 1]
                       ELSE Unknown,
                       IF s_idx < Len(senders) /\ 0 - s_idx <= Len(senders)
                       THEN senders[((s_idx + Len(senders)) % Len(senders)) + 1]
                       ELSE Unknown,
                       row[4])

DecodeRow(platforms, senders, row) ==
    LET p_idx == row[2]
        s_idx == row[3]
    IN  UnifiedMessage(fromisoformat(row[1]),
                       IF 0 <= p_idx /\ p_idx < Len(platforms)
                       THEN platforms[p_idx + 1] ELSE Unknown,
                       IF 0 <= s_idx /\ s_idx < Len(senders)
                       THEN senders[s_idx + 1] ELSE Unknown,
                       row[4])

decode_to_unified_messages(d) ==
    [k \in 1..Len(d.data) |->
        DecodeRow(d.meta.platforms, d.meta.senders, d.data[k])]

\* ------------------------------------------------------------------ JSON
\* A JSON document is kept as its token structure: every string in the
\* escaped form json.dump writes between the quotes (ensure_ascii=False),
\* every integer as itself.  JsonSize is the character count of the text
\* written with separators (',', ':').
EscapeChar(c) == IF c = "\"" THEN <<"\\", "\"">>
                 ELSE IF c = "\\" THEN <<"\\", "\\">>
                 ELSE IF c = "\n" THEN <<"\\", "n">>
                 ELSE <<c>>

json_escape(s) == Flatten([k \in 1..Len(s) |-> EscapeChar(s[k])])

\* e[k] is a backslash that starts an escape: it follows an even number
\* of consecutive backslashes
IsLead(e, k) ==
    /\ e[k] = "\\"
    /\ LET before == {j \in 1..(k - 1) : e[j] # "\\"}
           last   == IF before = {} THEN 0
                     ELSE CHOOSE j \in before : \A j2 \in before : j2 <= j
       IN  (k - 1 - last) % 2 = 0

\* the scan of a JSON string body: an escape lead is dropped and the
\* character after it is taken as the escaped one
json_unescape(e) ==
    LET keep == SelectSeq([k \in 1..Len(e) |-> k], LAMBDA k : ~IsLead(e, k))
    IN  [m \in 1..Len(keep) |->
            LET k == keep[m]
            IN  IF k > 1 /\ IsLead(e, k - 1) /\ e[k] = "n" THEN "\n" ELSE e[k]]

StrSize(e) == Len(e) + 2

IntSize(n) == Len(IntToStr(n))

\* '[' items joined by ',' ']'
ListSize(sizes) == 2 + SumSeq(sizes) + (IF Len(sizes) > 0 THEN Len(sizes) - 1 ELSE 0)

\* '{' "key":value joined by ',' '}' ; each member given as <<Len(key), size of value>>
ObjSize(members) ==
    ListSize([k \in 1..Len(members) |-> members[k][1] + 2 + 1 + members[k][2]])

StrListDump(lst) == [k \in 1..Len(lst) |-> json_escape(lst[k])]

StrListLoad(lst) == [k \in 1..Len(lst) |-> json_unescape(lst[k])]

StrListSize(lst) == ListSize([k \in 1..Len(lst) |-> StrSize(lst[k])])

RowDump(row) == <<json_escape(row[1]), row[2], row[3], json_escape(row[4])>>

RowLoad(row) == <<json_unescape(row[1]), row[2], row[3], json_unescape(row[4])>>

RowSize(row) ==
    ListSize(<<StrSize(row[1]), IntSize(row[2]), IntSize(row[3]), StrSize(row[4])>>)

\* json.dump(chunk_data, f, separators=(',', ':'), ensure_ascii=False)
json_dump(d) ==
    [meta |-> [platforms |-> StrListDump(d.meta.platforms),
               senders |-> StrListDump(d.meta.senders)],
     columns |-> StrListDump(d.columns),
     data |-> [k \in 1..Len(d.data) |-> RowDump(d.data[k])]]

\* json.load(f)
json_load(doc) ==
    [meta |-> [platforms |-> StrListLoad(doc.meta.platforms),
               senders |-> StrListLoad(doc.meta.senders)],
     columns |-> StrListLoad(doc.columns),
     data |-> [k \in 1..Len(doc.data) |-> RowLoad(doc.data[k])]]

\* len() of the text of a document
JsonSize(doc) ==
    ObjSize(<< <<4, ObjSize(<< <<9, StrListSize(doc.meta.platforms)>>,
                              <<7, StrListSize(doc.meta.senders)>> >>)>>,
               <<7, StrListSize(doc.columns)>>,
               <<4, ListSize([k \in 1..Len(doc.data) |-> RowSize(doc.data[k])])>> >>)

\* ------------------------------------------------------------ file names
\* filepath = <directory>/out.json ; a file is named by its final component
Stem == <<"o", "u", "t">>
Suffix == <<".", "j", "s", "o", "n">>
PartTag == <<"_", "p", "a", "r", "t">>

ExactName == Stem \o Suffix

\* filepath.with_name(f"{filepath.stem}_part{part_num}{filepath.suffix}")
PartName(part_num) == Stem \o PartTag \o IntToStr(part_num) \o Suffix

Lower == <<"a", "b", "c", "d", "e", "f", "g", "h", "i", "j", "k", "l", "m",
           "n", "o", "p", "q", "r", "s", "t", "u", "v", "w", "x", "y", "z">>

\* ord(c) for the characters of file names
Ord(c) == IF IsDigit(c) THEN 48 + DigitVal(c)
          ELSE IF c = "." THEN 46
          ELSE IF c = "_" THEN 95
          ELSE 96 + (CHOOSE k \in 1..26 : Lower[k] = c)

\* a < b for str: first differing character decides, a proper prefix is smaller
RECURSIVE StrLess(_, _)
StrLess(a, b) ==
    IF b = <<>> THEN FALSE
    ELSE IF a = <<>> THEN TRUE
    ELSE IF a[1] = b[1] THEN StrLess(Tail(a), Tail(b))
    ELSE Ord(a[1]) < Ord(b[1])

\* sorted(names): ascending in the order of str
RECURSIVE SortedNames(_)
SortedNames(names) ==
    IF names = {} THEN <<>>
    ELSE LET m == CHOOSE x \in names : \A y \in names \ {x} : StrLess(x, y)
         IN  <<m>> \o SortedNames(names \ {m})

\* fnmatch of f"{stem}_part*{suffix}"
GlobMatch(name) ==
    LET pre == Stem \o PartTag
    IN  /\ Len(name) >= Len(pre) + Len(Suffix)
        /\ SubSeq(name, 1, Len(pre)) = pre
        /\ SubSeq(name, Len(name) - Len(Suffix) + 1, Len(name)) = Suffix

\* open(path, 'w') ... json.dump(...) on the directory fs
WriteFile(fs, name, doc) ==
    [n \in (DOMAIN fs) \cup {name} |-> IF n = name THEN doc ELSE fs[n]]

EmptyDir == [n \in {} |-> <<>>]

\* -------------------------------------------------------------- splitter
estimate_tokens(text) == Len(text)

\* base_tokens = estimate_tokens(json.dumps({"meta", "columns", "data": []}))
BaseTokens(d) ==
    JsonSize(json_dump([meta |-> d.meta, columns |-> d.columns, data |-> <<>>]))

\* row_tokens = estimate_tokens(content if content else "") + 10
RowTokens(row) == estimate_tokens(row[4]) + RowOverhead

\* one iteration of "for row in rows"; st holds current_tokens,
\* current_chunk_rows and saved_files
SplitStep_noguard(st, row, base_tokens, budget) ==
    LET row_tokens == RowTokens(row)
        full == st.current_tokens + row_tokens > budget
        saved  == IF full THEN Append(st.saved_files, st.current_chunk_rows)
                  ELSE st.saved_files
        chunk  == IF full THEN <<>> ELSE st.current_chunk_rows
        tokens == IF full THEN base_tokens ELSE st.current_tokens
    IN  [current_tokens |-> tokens + row_tokens,
         current_chunk_rows |-> Append(chunk, row),
         saved_files |-> saved]

SplitStep_latecheck(st, row, base_tokens, budget) ==
    LET row_tokens == RowTokens(row)
        full == /\ st.current_tokens > budget
                /\ st.current_chunk_rows # <<>>
        saved  == IF full THEN Append(st.saved_files, st.current_chunk_rows)
                  ELSE st.saved_files
        chunk  == IF full THEN <<>> ELSE st.current_chunk_rows
        tokens == IF full THEN base_tokens ELSE st.current_tokens
    IN  [current_tokens |-> tokens + row_tokens,
         current_chunk_rows |-> Append(chunk, row),
         saved_files |-> saved]

SplitStep_dropbig(st, row, base_tokens, budget) ==
    LET row_tokens == RowTokens(row)
        full == /\ st.current_tokens + row_tokens > budget
                /\ st.current_chunk_rows # <<>>
        saved  == IF full THEN Append(st.saved_files, st.current_chunk_rows)
                  ELSE st.saved_files
        chunk  == IF full THEN <<>> ELSE st.current_chunk_rows
        tokens == IF full THEN base_tokens ELSE st.current_tokens
    IN  IF base_tokens + row_tokens > budget /\ row_tokens > budget
        THEN [current_tokens |-> tokens, current_chunk_rows |-> chunk,
              saved_files |-> saved]
        ELSE [current_tokens |-> tokens + row_tokens,
              current_chunk_rows |-> Append(chunk, row),
              saved_files |-> saved]

SplitStep(st, row, base_tokens, budget) ==
    LET row_tokens == RowTokens(row)
        full == /\ st.current_tokens + row_tokens > budget
                /\ st.current_chunk_rows # <<>>
        saved  == IF full THEN Append(st.saved_files, st.current_chunk_rows)
                  ELSE st.saved_files
        chunk  == IF full THEN <<>> ELSE st.current_chunk_rows
        tokens == IF full THEN base_tokens ELSE st.current_tokens
    IN  [current_tokens |-> tokens + row_tokens,
         current_chunk_rows |-> Append(chunk, row),
         saved_files |-> saved]

\* "if current_chunk_rows: saved_files.append(current_chunk_rows)"
AddLastChunk_forget(st) == st.saved_files

AddLastChunk(st) ==
    IF st.current_chunk_rows # <<>>
    THEN Append(st.saved_files, st.current_chunk_rows)
    ELSE st.saved_files

\* the path save_chunk chooses
SavePath_alwayspart(part_num, total_parts) == PartName(part_num)

SavePath(part_num, total_parts) ==
    IF total_parts = 1 /\ part_num = 1 THEN ExactName ELSE PartName(part_num)

\* save_chunk(rows_to_save, part_num, total_parts) on directory fs
save_chunk_usedmeta(fs, d, rows_to_save, part_num, total_parts) ==
    LET used(col, lst) ==
            SelectSeq(lst, LAMBDA x : \E k \in 1..Len(rows_to_save) :
                                          lst[rows_to_save[k][col] + 1] = x)
    IN  WriteFile(fs, SavePath(part_num, total_parts),
                  json_dump([meta |-> [platforms |-> used(2, d.meta.platforms),
                                       senders |-> used(3, d.meta.senders)],
                             columns |-> d.columns,
                             data |-> rows_to_save]))

save_chunk(fs, d, rows_to_save, part_num, total_parts) ==
    WriteFile(fs, SavePath(part_num, total_parts),
              json_dump([meta |-> d.meta, columns |-> d.columns,
                         data |-> rows_to_save]))

\* ---------------------------------------------------------------- merger
\* the parts in the order load_optimized_json reads them
SortedParts(fs) == SortedNames({n \in DOMAIN fs : GlobMatch(n)})

\* variant: the numbered shards are preferred to the exact artifact
load_optimized_json_partsfirst(fs) ==
    LET parts == SortedParts(fs)
        docs  == [k \in 1..Len(parts) |-> json_load(fs[parts[k]])]
    IN  IF parts # <<>>
        THEN [meta |-> docs[1].meta, columns |-> docs[1].columns,
              data |-> Flatten([k \in 1..Len(docs) |-> docs[k].data])]
        ELSE IF ExactName \in DOMAIN fs THEN json_load(fs[ExactName])
        ELSE [error |-> "FileNotFoundError"]

load_optimized_json(fs) ==
    IF ExactName \in DOMAIN fs THEN json_load(fs[ExactName])
    ELSE LET parts == SortedParts(fs)
             docs  == [k \in 1..Len(parts) |-> json_load(fs[parts[k]])]
         IN  IF parts = <<>> THEN [error |-> "FileNotFoundError"]
             ELSE [meta |-> docs[1].meta,
                   columns |-> docs[1].columns,
                   data |-> Flatten([k \in 1..Len(docs) |-> docs[k].data])]

\* the Python value None
None == [none |-> TRUE]

\* ------------------------------------------------------- WhatsApp parser
\* U+202F NARROW NO-BREAK SPACE, kept as one character
NNBSP == "U+202F"

\* str.isspace() / \s for the characters of the model
IsSpace(c) == c \in {" ", "\t", "\n", "\r", NNBSP}

Upper == <<"A", "B", "C", "D", "E", "F", "G", "H", "I", "J", "K", "L", "M",
           "N", "O", "P", "Q", "R", "S", "T", "U", "V", "W", "X", "Y", "Z">>

\* str.upper()
ToUpper(s) ==
    [k \in 1..Len(s) |->
        IF \E j \in 1..26 : Lower[j] = s[k]
        THEN Upper[CHOOSE j \in 1..26 : Lower[j] = s[k]]
        ELSE s[k]]

\* str.strip()
Strip(s) ==
    LET keep == {k \in 1..Len(s) : ~IsSpace(s[k])}
    IN  IF keep = {} THEN <<>>
        ELSE SubSeq(s, CHOOSE a \in keep : \A b \in keep : a <= b,
                       CHOOSE a \in keep : \A b \in keep : b <= a)

\* s[p:p+len(lit)] == lit (1-based p)
At(s, p, lit) ==
    /\ p >= 1
    /\ p + Len(lit) - 1 <= Len(s)
    /\ SubSeq(s, p, p + Len(lit) - 1) = lit

\* length of the longest run of characters satisfying Test that starts at p
RunLen(s, p, Test(_)) ==
    LET stop == {k \in p..Len(s) : ~Test(s[k])}
    IN  (IF stop = {} THEN Len(s) + 1
         ELSE CHOOSE a \in stop : \A b \in stop : a <= b) - p

DigitRun(s, p) == RunLen(s, p, IsDigit)

SpaceRun(s, p) == RunLen(s, p, IsSpace)

IsMarker(s, p) ==
    /\ p + 1 <= Len(s)
    /\ s[p] \in {"a", "A", "p", "P"}
    /\ s[p + 1] \in {"m", "M"}

\* A match in progress: whether it still succeeds, the position of the
\* next character, and the positions noted so far.
ScanStart == [ok |-> TRUE, p |-> 1, marks |-> <<>>]

ScanFail(st) == [st EXCEPT !.ok = FALSE]

\* note the current position
Mark(st) == [st EXCEPT !.marks = Append(@, st.p)]

\* a run of lo..hi digits that no further digit follows
Digits(s, st, lo, hi) ==
    IF st.ok /\ DigitRun(s, st.p) \in lo..hi
    THEN [st EXCEPT !.p = @ + DigitRun(s, st.p)]
    ELSE ScanFail(st)

\* exactly k digits
DigitsExact(s, st, k) ==
    IF st.ok /\ DigitRun(s, st.p) >= k THEN [st EXCEPT !.p = @ + k] ELSE ScanFail(st)

\* the literal lit
Lit(s, st, lit) ==
    IF st.ok /\ At(s, st.p, lit) THEN [st EXCEPT !.p = @ + Len(lit)] ELSE ScanFail(st)

\* a run of at least k whitespace characters
Spaces(s, st, k) ==
    IF st.ok /\ SpaceRun(s, st.p) >= k
    THEN [st EXCEPT !.p = @ + SpaceRun(s, st.p)]
    ELSE ScanFail(st)

\* (?:[\s\u202f]?[aApP][mM])? : the marker, behind at most one whitespace
\* character, or nothing
OptMarker(s, st) ==
    IF st.ok /\ IsMarker(s, st.p) THEN [st EXCEPT !.p = @ + 2]
    ELSE IF st.ok /\ st.p <= Len(s) /\ IsSpace(s[st.p]) /\ IsMarker(s, st.p + 1)
    THEN [st EXCEPT !.p = @ + 3]
    ELSE st

NoMatch == [ok |-> FALSE]

\* the part of the pattern before the sender:
\* ^(\d{1,2}/\d{1,2}/\d{2,4}),\s*(\d{1,2}:\d{2}(?:[\s\u202f]?[aApP][mM])?) -
\* with the marks <<end of the date, start of the time, end of the time>>
MatchScan(line) ==
    LET date == Digits(line, Lit(line, Digits(line, Lit(line,
                    Digits(line, ScanStart, 1, 2), <<"/">>), 1, 2), <<"/">>), 2, 4)
        time0 == Mark(Spaces(line, Lit(line, Mark(date), <<",">>), 0))
        time1 == OptMarker(line, DigitsExact(line, Lit(line,
                    Digits(line, time0, 1, 2), <<":">>), 2))
    IN  Lit(line, Mark(time1), <<" ", "-", " ">>)

\* the groups, the sender being the shortest text that ": " follows
MatchGroups(line, st) ==
    LET n  == Len(line)
        cs == {t \in st.p..(n - 1) : line[t] = ":" /\ line[t + 1] = " "}
        t0 == CHOOSE a \in cs : \A b \in cs : a <= b
    IN  IF st.ok /\ cs # {}
        THEN [ok |-> TRUE,
              date_str |-> SubSeq(line, 1, st.marks[1] - 1),
              time_str |-> SubSeq(line, st.marks[2], st.marks[3] - 1),
              sender   |-> SubSeq(line, st.p, t0 - 1),
              content  |-> SubSeq(line, t0 + 2, n)]
        ELSE NoMatch

\* pattern.match(line) for
\* ^(\d{1,2}/\d{1,2}/\d{2,4}),\s*(\d{1,2}:\d{2}(?:[\s\u202f]?[aApP][mM])?) - (.*?): (.*)$
\* Every repetition is followed by a literal it cannot match, so the
\* match is unique: each digit run is taken whole.
PatternMatch(line) == MatchGroups(line, MatchScan(line))

MediaOmitted == <<"<", "M", "e", "d", "i", "a", " ", "o", "m", "i", "t", "t", "e", "d", ">">>

\* time_str.replace('\u202f', ' ').strip()
ReplaceNNBSP(s) == [k \in 1..Len(s) |-> IF s[k] = NNBSP THEN " " ELSE s[k]]

\* re.sub(r'(\d{1,2}:\d{2})\s*([aApP][mM])', r'\1 \2', s) for a string that
\* starts with the hour digits, as every time_str does
InsertMarkerSpace_keep(s) == s

InsertMarkerSpaceAt(s, me) ==
    IF IsMarker(s, me + SpaceRun(s, me))
    THEN SubSeq(s, 1, me - 1) \o <<" ">> \o SubSeq(s, me + SpaceRun(s, me), Len(s))
    ELSE s

\* me: the first position after H:MM
InsertMarkerSpace(s) == InsertMarkerSpaceAt(s, DigitRun(s, 1) + 4)

clean_time_str(time_str) == InsertMarkerSpace(Strip(ReplaceNNBSP(time_str)))

IsLeap(y) == (y % 4 = 0 /\ y % 100 # 0) \/ y % 400 = 0

DaysInMonth(y, m) ==
    IF m = 2 THEN (IF IsLeap(y) THEN 29 ELSE 28)
    ELSE IF m \in {4, 6, 9, 11} THEN 30 ELSE 31

ValueError == [error |-> "ValueError"]

\* datetime.strptime(s, fmt) for the four formats of formats_to_try:
\* "%d/%m/<%Y or %y> <%H or %I>:%M< %p>"; fmt = [y4, h12].
\* StrptimeScan: the shape of the string, with the marks <<end of the day,
\* end of the month, end of the year, start of the hour, end of the hour,
\* end of the minute, start of the marker>>
StrptimeScan(s, fmt) ==
    LET date == Mark(Digits(s, Lit(s, Mark(Digits(s, Lit(s,
                    Mark(Digits(s, ScanStart, 1, 2)), <<"/">>), 1, 2)), <<"/">>),
                    IF fmt.y4 THEN 4 ELSE 2, IF fmt.y4 THEN 4 ELSE 2))
        hour == Mark(Digits(s, Mark(Spaces(s, date, 1)), 1, 2))
        min  == Mark(Digits(s, Lit(s, hour, <<":">>), 1, 2))
    IN  IF fmt.h12 THEN Mark(Spaces(s, min, 1)) ELSE Mark(min)

\* the values of the fields and their ranges
StrptimeFields(s, fmt, st) ==
    LET day    == ToNat(SubSeq(s, 1, st.marks[1] - 1))
        month  == ToNat(SubSeq(s, st.marks[1] + 1, st.marks[2] - 1))
        yy     == ToNat(SubSeq(s, st.marks[2] + 1, st.marks[3] - 1))
        hh     == ToNat(SubSeq(s, st.marks[4], st.marks[5] - 1))
        minute == ToNat(SubSeq(s, st.marks[5] + 1, st.marks[6] - 1))
        year   == IF fmt.y4 THEN yy ELSE IF yy <= 68 THEN 2000 + yy ELSE 1900 + yy
        g0     == st.marks[7]
    IN  IF /\ st.ok
           /\ IF fmt.h12 THEN IsMarker(s, g0) /\ g0 + 1 = Len(s)
                         ELSE g0 = Len(s) + 1
           /\ day \in 1..31 /\ month \in 1..12 /\ minute \in 0..59
           /\ (IF fmt.h12 THEN hh \in 1..12 ELSE hh \in 0..23)
           /\ year >= 1 /\ day <= DaysInMonth(year, month)
        THEN [year |-> year, month |-> month, day |-> day,
              hour |-> IF fmt.h12
                       THEN (hh % 12) + (IF s[g0] \in {"p", "P"} THEN 12 ELSE 0)
                       ELSE hh,
              minute |-> minute, second |-> 0, microsecond |-> 0]
        ELSE ValueError

strptime(s, fmt) == StrptimeFields(s, fmt, StrptimeScan(s, fmt))

formats_to_try == << [y4 |-> TRUE, h12 |-> FALSE], [y4 |-> FALSE, h12 |-> FALSE],
                     [y4 |-> TRUE, h12 |-> TRUE], [y4 |-> FALSE, h12 |-> TRUE] >>

\* lines 54-80: dt, or None when every format raises ValueError
ParseTimestamp(date_str, time_str) ==
    LET normalized_dt_str == ToUpper(date_str \o <<" ">> \o clean_time_str(time_str))
        ok == {k \in 1..Len(formats_to_try) :
                  strptime(normalized_dt_str, formats_to_try[k]) # ValueError}
    IN  IF ok = {} THEN None
        ELSE strptime(normalized_dt_str,
                      formats_to_try[CHOOSE a \in ok : \A b \in ok : a <= b])

\* The state of one parse_whatsapp call is st = [objs, current_msg,
\* messages]: the UnifiedMessage objects created so far, current_msg (0 for
\* None, else the position of the object in objs) and the list "messages"
\* (as positions in objs).

\* lines 41-42: "if current_msg: messages.append(current_msg)"
SavePrevious(st) ==
    IF st.current_msg # 0 THEN Append(st.messages, st.current_msg) ELSE st.messages

\* lines 47-49: a header whose content is the media marker
MediaHeader_keepopen(st) == [st EXCEPT !.messages = SavePrevious(st)]

MediaHeader_discard(st) == [st EXCEPT !.current_msg = 0]

MediaHeader(st) == [st EXCEPT !.current_msg = 0, !.messages = SavePrevious(st)]

\* lines 82-86: a header whose date and time no format parses
FailedHeader_keepopen(st) == [st EXCEPT !.messages = SavePrevious(st)]

FailedHeader(st) == [st EXCEPT !.current_msg = 0, !.messages = SavePrevious(st)]

\* lines 88-93: a header that opens a new message
OpenHeader(st, dt, m) ==
    [objs |-> Append(st.objs, UnifiedMessage(dt, WhatsApp, Strip(m.sender), m.content)),
     current_msg |-> Len(st.objs) + 1,
     messages |-> SavePrevious(st)]

\* lines 94-97: a line that is not a header
Continuation_nonewline(st, line) ==
    IF st.current_msg # 0
    THEN [st EXCEPT !.objs[st.current_msg].content = @ \o line]
    ELSE st

\* variant: with no open message the line goes to the message appended last
Continuation_tolast(st, line) ==
    IF st.current_msg # 0
    THEN [st EXCEPT !.objs[st.current_msg].content = @ \o <<"\n">> \o line]
    ELSE IF st.messages # <<>>
    THEN [st EXCEPT !.objs[st.messages[Len(st.messages)]].content
                        = @ \o <<"\n">> \o line]
    ELSE st

Continuation(st, line) ==
    IF st.current_msg # 0
    THEN [st EXCEPT !.objs[st.current_msg].content = @ \o <<"\n">> \o line]
    ELSE st

\* variant: the line is matched as read, without strip()
ParseLineStep_nostrip(st, raw) ==
    LET line == raw
        m == PatternMatch(line)
        dt == ParseTimestamp(m.date_str, m.time_str)
    IN  IF line = <<>> THEN st
        ELSE IF ~m.ok THEN Continuation(st, line)
        ELSE IF Strip(m.content) = MediaOmitted THEN MediaHeader(st)
        ELSE IF dt = None THEN FailedHeader(st)
        ELSE OpenHeader(st, dt, m)

\* one iteration of "for line in f" (lines 33-97)
ParseLineStep(st, raw) ==
    LET line == Strip(raw)
        m == PatternMatch(line)
        dt == ParseTimestamp(m.date_str, m.time_str)
    IN  IF line = <<>> THEN st
        ELSE IF ~m.ok THEN Continuation(st, line)
        ELSE IF Strip(m.content) = MediaOmitted THEN MediaHeader(st)
        ELSE IF dt = None THEN FailedHeader(st)
        ELSE OpenHeader(st, dt, m)

\* lines 100-101: "if current_msg: messages.append(current_msg)"
AppendLast_forget(st) == st.messages

AppendLast(st) ==
    IF st.current_msg # 0 THEN Append(st.messages, st.current_msg) ELSE st.messages

\* ------------------------------------------------------------------ state
VARIABLES
    messages,            \* the UnifiedMessage sequence given to the encoder
    max_tokens,          \* the budget given to save_optimized_json
    pc,                  \* position of the run
    optimized_data,      \* result of convert_to_optimized_format
    roundtrip,           \* decode_to_unified_messages(optimized_data)
    split,               \* current_tokens, current_chunk_rows, saved_files
    row_i,               \* 1-based position of "for row in rows"
    created_paths,       \* paths returned by save_optimized_json
    files,               \* the directory: file name -> JSON document
    loaded,              \* result of load_optimized_json
    decoded,             \* decode_to_unified_messages(loaded)
    saves                \* save_optimized_json calls made on this directory

\* parse_whatsapp
VARIABLES
    wa_lines,            \* the lines of the export file
    wa_i,                \* 1-based position of "for line in f"
    wa_objs,             \* the UnifiedMessage objects created so far
    current_msg,         \* 0 for None, else a position in wa_objs
    wa_messages,         \* the list "messages", as positions in wa_objs
    wa_pc                \* "idle", "loop" or "returned"

\* parse_instagram
VARIABLES
    ig_records,          \* data["messages"]
    ig_i,                \* 1-based position of "for msg in ..."
    ig_messages,         \* the list "messages"
    ig_pc                \* "idle", "loop", "returned" or the exception raised

\* the analysis phase: KeyManager, analyze_chunk and the chunk loop of main
VARIABLES
    account_keys,        \* KeyManager.account_keys
    current_acc_idx,     \* KeyManager.current_acc_idx
    current_key_indices, \* KeyManager.current_key_indices
    account_cooldowns,   \* KeyManager.account_cooldowns: acc_idx -> deadline
    now,                 \* time.time(), in seconds
    scan,                \* iterations done by the loop of get_active_key
    api_key,             \* the key get_active_key returned last
    attempt,             \* "attempt" of analyze_chunk
    chunk_results,       \* the list chunk_results of main
    checkpoint,          \* CHECKPOINT_FILE: whether it exists, and its content
    an_i,                \* "i" of the chunk loop of main
    total_chunks,        \* len(chunks)
    an_pc,               \* position of the analysis phase
    runs                 \* runs of main started on this checkpoint file

pipeVars == <<messages, max_tokens, pc, optimized_data, roundtrip, split, row_i,
              created_paths, files, loaded, decoded, saves>>

anVars == <<account_keys, current_acc_idx, current_key_indices,
            account_cooldowns, now, scan, api_key, attempt, chunk_results,
            checkpoint, an_i, total_chunks, an_pc, runs>>

waVars == <<wa_lines, wa_i, wa_objs, current_msg, wa_messages, wa_pc>>

igVars == <<ig_records, ig_i, ig_messages, ig_pc>>

vars == <<messages, max_tokens, pc, optimized_data, roundtrip, split, row_i,
          created_paths, files, loaded, decoded, saves,
          wa_lines, wa_i, wa_objs, current_msg, wa_messages, wa_pc,
          ig_records, ig_i, ig_messages, ig_pc,
          account_keys, current_acc_idx, current_key_indices,
          account_cooldowns, now, scan, api_key, attempt, chunk_results,
          checkpoint, an_i, total_chunks, an_pc, runs>>

\* no parse_whatsapp call in progress
WaIdle ==
    /\ wa_lines = <<>> /\ wa_i = 0 /\ wa_objs = <<>> /\ current_msg = 0
    /\ wa_messages = <<>> /\ wa_pc = "idle"

\* no parse_instagram call in progress
IgIdle ==
    /\ ig_records = <<>> /\ ig_i = 0 /\ ig_messages = <<>> /\ ig_pc = "idle"

\* the analysis phase has not started
AnIdle ==
    /\ account_keys = <<>> /\ current_acc_idx = 0 /\ current_key_indices = <<>>
    /\ account_cooldowns = <<>> /\ now = 0 /\ scan = 0 /\ api_key = ""
    /\ attempt = 0 /\ chunk_results = <<>>
    /\ checkpoint = [exists |-> FALSE, results |-> <<>>] /\ an_i = 0
    /\ total_chunks = 0 /\ an_pc = "idle" /\ runs = 0

NoSplit == [current_tokens |-> 0, current_chunk_rows |-> <<>>, saved_files |-> <<>>]

Init ==
    /\ messages \in Inputs
    /\ max_tokens \in Budgets
    /\ pc = "convert"
    /\ optimized_data = None
    /\ roundtrip = <<>>
    /\ split = NoSplit
    /\ row_i = 0
    /\ created_paths = <<>>
    /\ files = EmptyDir
    /\ loaded = None
    /\ decoded = <<>>
    /\ saves = 0
    /\ WaIdle
    /\ IgIdle
    /\ AnIdle

\* optimized_data = convert_to_optimized_format(all_messages)
Convert ==
    /\ pc = "convert"
    /\ optimized_data' = convert_to_optimized_format(messages)
    /\ pc' = "roundtrip"
    /\ UNCHANGED <<messages, max_tokens, roundtrip, split, row_i, created_paths,
                   files, loaded, decoded>>
    /\ UNCHANGED <<saves, waVars, igVars, anVars>>

\* decode_to_unified_messages applied to the dataset in memory
DecodeEncoded ==
    /\ pc = "roundtrip"
    /\ roundtrip' = decode_to_unified_messages(optimized_data)
    /\ pc' = "save"
    /\ UNCHANGED <<messages, max_tokens, optimized_data, split, row_i,
                   created_paths, files, loaded, decoded>>
    /\ UNCHANGED <<saves, waVars, igVars, anVars>>

\* save_optimized_json, up to the row loop
SaveBegin ==
    /\ pc = "save"
    /\ split' = [current_tokens |-> BaseTokens(optimized_data),
                 current_chunk_rows |-> <<>>, saved_files |-> <<>>]
    /\ row_i' = 1
    /\ pc' = "split"
    /\ UNCHANGED <<messages, max_tokens, optimized_data, roundtrip,
                   created_paths, files, loaded, decoded>>
    /\ UNCHANGED <<saves, waVars, igVars, anVars>>

\* one iteration of the row loop
SplitRow ==
    /\ pc = "split"
    /\ row_i <= Len(optimized_data.data)
    /\ split' = SplitStep(split, optimized_data.data[row_i],
                          BaseTokens(optimized_data), max_tokens)
    /\ row_i' = row_i + 1
    /\ UNCHANGED <<messages, max_tokens, pc, optimized_data, roundtrip,
                   created_paths, files, loaded, decoded>>
    /\ UNCHANGED <<saves, waVars, igVars, anVars>>

\* end of the row loop: add the last chunk; with nothing to write the
\* function returns at once
SplitEnd ==
    /\ pc = "split"
    /\ row_i > Len(optimized_data.data)
    /\ split' = [split EXCEPT !.saved_files = AddLastChunk(split)]
    /\ pc' = IF AddLastChunk(split) = <<>> THEN "load" ELSE "write"
    /\ UNCHANGED <<messages, max_tokens, optimized_data, roundtrip, row_i,
                   created_paths, files, loaded, decoded>>
    /\ UNCHANGED <<saves, waVars, igVars, anVars>>

\* one iteration of "for i, rows_in_chunk in enumerate(saved_files)"
WriteChunk ==
    /\ pc = "write"
    /\ LET part_num  == Len(created_paths) + 1
           num_parts == Len(split.saved_files)
       IN  /\ files' = save_chunk(files, optimized_data,
                                  split.saved_files[part_num], part_num, num_parts)
           /\ created_paths' = Append(created_paths, SavePath(part_num, num_parts))
           /\ pc' = IF part_num = num_parts THEN "load" ELSE "write"
    /\ UNCHANGED <<messages, max_tokens, optimized_data, roundtrip, split, row_i,
                   loaded, decoded>>
    /\ UNCHANGED <<saves, waVars, igVars, anVars>>

\* load_optimized_json(filepath)
Load ==
    /\ pc = "load"
    /\ loaded' = load_optimized_json(files)
    /\ pc' = "decode"
    /\ UNCHANGED <<messages, max_tokens, optimized_data, roundtrip, split, row_i,
                   created_paths, files, decoded>>
    /\ UNCHANGED <<saves, waVars, igVars, anVars>>

LoadFailed == "error" \in DOMAIN loaded

\* decode_to_unified_messages(loaded); a failed load has nothing to decode
Decode ==
    /\ pc = "decode"
    /\ decoded' = IF LoadFailed THEN decoded ELSE decode_to_unified_messages(loaded)
    /\ pc' = "done"
    /\ UNCHANGED <<messages, max_tokens, optimized_data, roundtrip, split, row_i,
                   created_paths, files, loaded>>
    /\ UNCHANGED <<saves, waVars, igVars, anVars>>

Next ==
    \/ Convert
    \/ DecodeEncoded
    \/ SaveBegin
    \/ SplitRow
    \/ SplitEnd
    \/ WriteChunk
    \/ Load
    \/ Decode

Spec == Init /\ [][Next]_vars

\* ------------------------------------------------------------ properties
Encoded == pc \notin {"convert"}

RoundTripDone == pc \notin {"convert", "roundtrip"}

Saved == pc \in {"load", "decode", "done"}

\* the rows of the k-th file returned by save_optimized_json, as loaded
ShardRows(k) == json_load(files[created_paths[k]]).data

\* estimated cost of a shard: base_cost plus len(content) + 10 per row
EstimatedCost(rows) ==
    BaseTokens(optimized_data)
    + SumSeq([j \in 1..Len(rows) |-> Len(rows[j][4]) + 10])

\* C1: decoding the encoded sequence gives a sequence of the same length
\* whose k-th message has the timestamp, platform, sender and content of
\* the k-th input message.
C1_RoundTrip ==
    RoundTripDone =>
        /\ Len(roundtrip) = Len(messages)
        /\ \A k \in 1..Len(messages) :
              /\ roundtrip[k].timestamp = messages[k].timestamp
              /\ roundtrip[k].platform = messages[k].platform
              /\ roundtrip[k].sender = messages[k].sender
              /\ roundtrip[k].content = messages[k].content

C1_Witness ==
    /\ pc = "save"
    /\ Len(roundtrip) >= 3
    /\ \E j, k \in 1..Len(messages) :
          /\ j < k
          /\ messages[j].sender = messages[k].sender
          /\ messages[j].platform # messages[k].platform
          /\ messages[k].timestamp.microsecond # 0

\* C2: saving a dataset into an empty directory and loading it back
\* returns the same meta, columns and rows in the same order, for every
\* number of rows and every positive budget.
C2_ChunkRoundTrip ==
    pc = "done" =>
        /\ ~LoadFailed
        /\ loaded.meta = optimized_data.meta
        /\ loaded.columns = optimized_data.columns
        /\ loaded.data = optimized_data.data

\* C3: the shards written partition the input rows: their data,
\* concatenated in shard-number order, is the input row sequence.
C3_ShardsPartitionRows ==
    Saved =>
        Flatten([k \in 1..Len(created_paths) |-> ShardRows(k)])
            = optimized_data.data

C3_Witness ==
    /\ Saved
    /\ Len(created_paths) >= 3
    /\ \E k \in 1..Len(created_paths) : Len(ShardRows(k)) >= 2

\* C4: no shard, closed or written, has zero rows.
C4_NoEmptyShard ==
    /\ \A k \in 1..Len(split.saved_files) : Len(split.saved_files[k]) > 0
    /\ \A n \in DOMAIN files : Len(files[n].data) > 0

C4_Witness ==
    /\ Saved
    /\ max_tokens < BaseTokens(optimized_data)
    /\ Len(created_paths) >= 2

\* C5: a shard whose estimated cost exceeds the budget has exactly one row.
C5_OverBudgetIsSingleRow ==
    Encoded =>
        \A k \in 1..Len(split.saved_files) :
            EstimatedCost(split.saved_files[k]) > max_tokens
                => Len(split.saved_files[k]) = 1

C5_Witness ==
    /\ Saved
    /\ \E k \in 1..Len(split.saved_files) :
          /\ Len(split.saved_files[k]) >= 2
          /\ EstimatedCost(split.saved_files[k]) <= max_tokens
    /\ \E k \in 1..Len(split.saved_files) :
          /\ Len(split.saved_files[k]) = 1
          /\ EstimatedCost(split.saved_files[k]) > max_tokens

\* C6: the text of every written shard that holds two or more rows has
\* at most max_tokens characters.
C6_SerializedSizeWithinBudget ==
    \A n \in DOMAIN files :
        Len(files[n].data) >= 2 => JsonSize(files[n]) <= max_tokens

\* C7: a row whose own cost len(content) + 10 exceeds the budget is
\* written, and it is the only row of its shard.
C7_OversizedRowAlone ==
    Saved =>
        /\ \A r \in 1..Len(optimized_data.data) :
              Len(optimized_data.data[r][4]) + 10 > max_tokens
                  => \E k \in 1..Len(created_paths) :
                        /\ ShardRows(k) = <<optimized_data.data[r]>>
                        /\ Len(Flatten([j \in 1..(k - 1) |-> ShardRows(j)])) = r - 1
        /\ SumSeq([k \in 1..Len(created_paths) |-> Len(ShardRows(k))])
              = Len(optimized_data.data)

C7_Witness ==
    /\ Saved
    /\ \E r \in 2..(Len(optimized_data.data) - 1) :
          /\ Len(optimized_data.data[r][4]) + 10 > max_tokens
          /\ BaseTokens(optimized_data)
                + 2 * (Len(optimized_data.data[r - 1][4]) + 10) <= max_tokens
          /\ BaseTokens(optimized_data)
                + 2 * (Len(optimized_data.data[r + 1][4]) + 10) <= max_tokens
          /\ ShardRows(r) = <<optimized_data.data[r]>>

\* C8: one shard is written under the requested name only; N > 1 shards
\* are written as <stem>_part1 .. <stem>_partN<suffix>, in emission
\* order, and the requested name is not written.
C8_ShardNaming ==
    Saved =>
        LET N == Len(split.saved_files)
            numbered(k) == Stem \o <<"_", "p", "a", "r", "t">> \o IntToStr(k) \o Suffix
        IN  /\ N = 1 => (DOMAIN files = {Stem \o Suffix}
                         /\ created_paths = <<Stem \o Suffix>>)
            /\ N > 1 => /\ DOMAIN files = {numbered(k) : k \in 1..N}
                        /\ created_paths = [k \in 1..N |-> numbered(k)]
                        /\ \A k \in 1..N :
                              json_load(files[numbered(k)]).data = split.saved_files[k]

C8_Witness ==
    /\ Saved
    /\ Len(split.saved_files) >= 10
    /\ Stem \o PartTag \o <<"1", "0">> \o Suffix \in DOMAIN files
    /\ (Stem \o Suffix) \notin DOMAIN files

\* C9: every written shard carries the meta and columns of the input
\* dataset.
C9_SharedMeta ==
    \A n \in DOMAIN files :
        /\ json_load(files[n]).meta = optimized_data.meta
        /\ json_load(files[n]).columns = optimized_data.columns

C9_Witness ==
    /\ Saved
    /\ Len(optimized_data.meta.platforms) = 2
    /\ Len(optimized_data.meta.senders) = 2
    /\ \E n \in DOMAIN files :
          \A j \in 1..Len(files[n].data) :
              files[n].data[j][2] = 0 /\ files[n].data[j][3] = 1

\* C10: every platform_idx and sender_idx of the encoded dataset, and of
\* every shard written from it, is a valid 0-based index into the
\* corresponding meta list.
C10_IndicesValid ==
    LET valid(d) ==
            \A j \in 1..Len(d.data) :
                /\ 0 <= d.data[j][2] /\ d.data[j][2] < Len(d.meta.platforms)
                /\ 0 <= d.data[j][3] /\ d.data[j][3] < Len(d.meta.senders)
    IN  /\ Encoded => valid(optimized_data)
        /\ \A n \in DOMAIN files : valid(json_load(files[n]))

C10_Witness ==
    /\ Saved
    /\ Cardinality(DOMAIN files) >= 2
    /\ \E j \in 1..Len(optimized_data.data) :
          optimized_data.data[j][2] = 1 /\ optimized_data.data[j][3] = 0
    /\ \E j \in 1..Len(optimized_data.data) :
          optimized_data.data[j][2] = 0 /\ optimized_data.data[j][3] = 1

\* C11: meta.platforms and meta.senders hold each distinct name of the
\* input exactly once, in order of first occurrence, and every entry is
\* referenced by some row.
C11_DictionariesFirstSeen ==
    Encoded =>
        LET firstPos(field, x) ==
                CHOOSE k \in 1..Len(messages) :
                    /\ messages[k][field] = x
                    /\ \A j \in 1..(k - 1) : messages[j][field] # x
            ok(lst, field, col) ==
                /\ \A i, j \in 1..Len(lst) : i # j => lst[i] # lst[j]
                /\ {lst[i] : i \in 1..Len(lst)}
                      = {messages[k][field] : k \in 1..Len(messages)}
                /\ \A i, j \in 1..Len(lst) :
                      i < j => firstPos(field, lst[i]) < firstPos(field, lst[j])
                /\ \A i \in 1..Len(lst) :
                      \E r \in 1..Len(optimized_data.data) :
                          optimized_data.data[r][col] = i - 1
        IN  /\ ok(optimized_data.meta.platforms, "platform", 2)
            /\ ok(optimized_data.meta.senders, "sender", 3)

C11_Witness ==
    /\ Encoded
    /\ Len(messages) >= 3
    /\ optimized_data.meta.platforms = <<Instagram, WhatsApp>>
    /\ optimized_data.meta.senders = <<Bob, Alice>>
    /\ messages[1].sender = messages[3].sender

\* ------------------------------------------------- parse_whatsapp runs
PipeIdleNoAn ==
    /\ messages = <<>> /\ max_tokens = DefaultMaxTokens /\ pc = "idle"
    /\ optimized_data = None /\ roundtrip = <<>> /\ split = NoSplit
    /\ row_i = 0 /\ created_paths = <<>> /\ files = EmptyDir
    /\ loaded = None /\ decoded = <<>> /\ saves = 0

PipeIdle ==
    /\ PipeIdleNoAn
    /\ AnIdle

MaxLines == 4     \* greatest number of lines of an export file

\* "<date>, <time> - <sender>: <content>"
HeaderLine(date, time, sender, content) ==
    date \o <<",", " ">> \o time \o <<" ", "-", " ">> \o sender
    \o <<":", " ">> \o content

Bye == <<"B", "y", "e">>

LineHello == HeaderLine(<<"0", "1", "/", "0", "2", "/", "2", "0", "2", "4">>, <<"1", "4", ":", "0", "5">>, Alice, Hello)
LineThere == <<" ", "t", "h", "e", "r", "e">>
LineMedia == HeaderLine(<<"0", "2", "/", "0", "2", "/", "2", "0", "2", "4">>, <<"0", "9", ":", "0", "0">>, Bob, MediaOmitted)
LineBye == HeaderLine(<<"0", "3", "/", "0", "2", "/", "2", "0", "2", "4">>, <<"1", "0", ":", "1", "5">>, Alice, Bye)
LineBadDate == HeaderLine(<<"3", "1", "/", "0", "2", "/", "2", "0", "2", "4">>, <<"1", "0", ":", "1", "5">>, Bob, Bye)
LineBlank == <<" ", " ">>

WaLineSet == {LineHello, LineThere, LineMedia, LineBye, LineBadDate, LineBlank}

WaFiles == UNION { [1..k -> WaLineSet] : k \in 0..MaxLines }

WaState == [objs |-> wa_objs, current_msg |-> current_msg, messages |-> wa_messages]

\* one line of the file
WaLine ==
    /\ wa_pc = "loop"
    /\ wa_i <= Len(wa_lines)
    /\ LET st == ParseLineStep(WaState, wa_lines[wa_i])
       IN  /\ wa_objs' = st.objs
           /\ current_msg' = st.current_msg
           /\ wa_messages' = st.messages
    /\ wa_i' = wa_i + 1
    /\ UNCHANGED <<wa_lines, wa_pc>>
    /\ UNCHANGED <<pipeVars, igVars, anVars>>

\* end of file: append the last message and return
WaReturn ==
    /\ wa_pc = "loop"
    /\ wa_i > Len(wa_lines)
    /\ wa_messages' = AppendLast(WaState)
    /\ wa_pc' = "returned"
    /\ UNCHANGED <<wa_lines, wa_i, wa_objs, current_msg>>
    /\ UNCHANGED <<pipeVars, igVars, anVars>>

WaStart(lines) ==
    /\ wa_lines = lines /\ wa_i = 1 /\ wa_objs = <<>> /\ current_msg = 0
    /\ wa_messages = <<>> /\ wa_pc = "loop"

InitWA ==
    /\ PipeIdle
    /\ IgIdle
    /\ \E lines \in WaFiles : WaStart(lines)

NextWA ==
    \/ WaLine
    \/ WaReturn

SpecWA == InitWA /\ [][NextWA]_vars

\* the value parse_whatsapp returns
WaResult == [k \in 1..Len(wa_messages) |-> wa_objs[wa_messages[k]]]

\* ---- parse_whatsapp on headers that differ in the AM/PM marker only
MarkerDate == <<"0", "5", "/", "0", "3", "/", "2", "4">>

MarkerTimes == {<<"1", "1", ":", "5", "9">>, <<"1", "2", ":", "0", "0">>}

\* what may stand between the digits and the marker (line 28)
MarkerSeps == {<<" ">>, <<>>, <<NNBSP>>}

Markers == {<<x, y>> : x \in {"a", "A", "p", "P"}, y \in {"m", "M"}}

MarkerLine(time, sep, marker) ==
    HeaderLine(MarkerDate, time \o sep \o marker, Alice, Hello)

MarkerLines ==
    {MarkerLine(t, s, m) : t \in MarkerTimes, s \in MarkerSeps, m \in Markers}

InitMarkers ==
    /\ PipeIdle
    /\ IgIdle
    /\ \E l1, l2 \in MarkerLines : WaStart(<<l1, l2>>)

SpecMarkers == InitMarkers /\ [][NextWA]_vars

\* ------------------------------------------------------ parse_instagram
\* The value None where the code expects a str (msg.get("sender_name") of
\* a record without that key): a token that is no character keeps it
\* apart from every str.
NoneValue == <<"<None>">>

\* the printable ASCII characters, code points 32..126 (the grave accent
\* written as a token)
Printable ==
    <<" ", "!", "\"", "#", "$", "%", "&", "'", "(", ")", "*", "+", ",", "-",
      ".", "/", "0", "1", "2", "3", "4", "5", "6", "7", "8", "9", ":", ";",
      "<", "=", ">", "?", "@", "A", "B", "C", "D", "E", "F", "G", "H", "I",
      "J", "K", "L", "M", "N", "O", "P", "Q", "R", "S", "T", "U", "V", "W",
      "X", "Y", "Z", "[", "\\", "]", "^", "_", "U+0060", "a", "b", "c", "d", "e",
      "f", "g", "h", "i", "j", "k", "l", "m", "n", "o", "p", "q", "r", "s",
      "t", "u", "v", "w", "x", "y", "z", "{", "|", "}", "~">>

\* the characters outside ASCII that the inputs use, with their code points
NonAscii ==
    {<<"U+0082", 130>>, <<"U+00A9", 169>>, <<"U+00AC", 172>>, <<"U+00C3", 195>>,
     <<"U+00E2", 226>>, <<"U+00E9", 233>>, <<NNBSP, 8239>>, <<"U+20AC", 8364>>}

\* ord(c)
CodePoint(c) ==
    IF c = "\n" THEN 10
    ELSE IF c = "\t" THEN 9
    ELSE IF \E k \in 1..Len(Printable) : Printable[k] = c
    THEN 31 + (CHOOSE k \in 1..Len(Printable) : Printable[k] = c)
    ELSE (CHOOSE e \in NonAscii : e[1] = c)[2]

\* chr(cp)
Chr(cp) ==
    IF cp = 10 THEN "\n"
    ELSE IF cp = 9 THEN "\t"
    ELSE IF cp >= 32 /\ cp <= 126 THEN Printable[cp - 31]
    ELSE (CHOOSE e \in NonAscii : e[2] = cp)[1]

\* str.encode('latin1'): one byte per character, UnicodeEncodeError for a
\* character above U+00FF
latin1_encode(s) ==
    IF \E k \in 1..Len(s) : CodePoint(s[k]) > 255
    THEN [ok |-> FALSE, v |-> <<>>]
    ELSE [ok |-> TRUE, v |-> [k \in 1..Len(s) |-> CodePoint(s[k])]]

IsCont(b, i) == i <= Len(b) /\ b[i] >= 128 /\ b[i] <= 191

\* bytes.decode('utf-8'), strict: the code points from position i on, or
\* not ok (UnicodeDecodeError) at the first ill-formed sequence
RECURSIVE Utf8From(_, _)
Utf8From(b, i) ==
    IF i > Len(b) THEN [ok |-> TRUE, v |-> <<>>]
    ELSE LET c == b[i]
             n == IF c < 128 THEN 1
                  ELSE IF c >= 194 /\ c <= 223 THEN 2
                  ELSE IF c >= 224 /\ c <= 239 THEN 3
                  ELSE IF c >= 240 /\ c <= 244 THEN 4
                  ELSE 0
             second == IF c = 224 THEN b[i + 1] >= 160
                       ELSE IF c = 237 THEN b[i + 1] <= 159
                       ELSE IF c = 240 THEN b[i + 1] >= 144
                       ELSE IF c = 244 THEN b[i + 1] <= 143
                       ELSE TRUE
             wellformed == /\ n > 0
                           /\ \A j \in 1..(n - 1) : IsCont(b, i + j)
                           /\ n > 1 => second
             cp == IF n = 1 THEN c
                   ELSE IF n = 2 THEN (c - 192) * 64 + (b[i + 1] - 128)
                   ELSE IF n = 3 THEN (c - 224) * 4096 + (b[i + 1] - 128) * 64
                                      + (b[i + 2] - 128)
                   ELSE (c - 240) * 262144 + (b[i + 1] - 128) * 4096
                        + (b[i + 2] - 128) * 64 + (b[i + 3] - 128)
             rest == Utf8From(b, i + n)
         IN  IF ~wellformed THEN [ok |-> FALSE, v |-> <<>>]
             ELSE IF ~rest.ok THEN rest
             ELSE [ok |-> TRUE, v |-> <<cp>> \o rest.v]

utf8_decode(b) ==
    LET r == Utf8From(b, 1)
    IN  IF r.ok THEN [ok |-> TRUE, v |-> [k \in 1..Len(r.v) |-> Chr(r.v[k])]]
        ELSE r

\* x.encode('latin1').decode('utf-8'): ok and the new string, or not ok
\* for UnicodeEncodeError and UnicodeDecodeError
Repair(x) ==
    LET e == latin1_encode(x)
    IN  IF e.ok THEN utf8_decode(e.v) ELSE e

\* lines 138-142: one try block for both strings
TryRepair(sender, content) ==
    LET c == Repair(content)
        s == Repair(sender)
    IN  IF ~c.ok THEN [exc |-> "", sender |-> sender, content |-> content]
        ELSE IF sender = NoneValue
        THEN [exc |-> "AttributeError", sender |-> sender, content |-> c.v]
        ELSE IF ~s.ok THEN [exc |-> "", sender |-> sender, content |-> c.v]
        ELSE [exc |-> "", sender |-> s.v, content |-> c.v]

\* datetime.fromtimestamp(ts_ms / 1000.0), the local time zone being UTC
fromtimestamp(ts_ms) ==
    LET secs == ts_ms \div 1000
        days == secs \div 86400
        sod  == secs % 86400
        z    == days + 719468
        era  == z \div 146097
        doe  == z - era * 146097
        yoe  == (doe - doe \div 1460 + doe \div 36524 - doe \div 146096) \div 365
        doy  == doe - (365 * yoe + yoe \div 4 - yoe \div 100)
        mp   == (5 * doy + 2) \div 153
        m    == IF mp < 10 THEN mp + 3 ELSE mp - 9
    IN  [year |-> yoe + era * 400 + (IF m <= 2 THEN 1 ELSE 0),
         month |-> m,
         day |-> doy - (153 * mp + 2) \div 5 + 1,
         hour |-> sod \div 3600,
         minute |-> (sod % 3600) \div 60,
         second |-> sod % 60,
         microsecond |-> (ts_ms % 1000) * 1000]

SharedPost == <<"[", "S", "h", "a", "r", "e", "d", " ", "P", "o", "s", "t", "]", " ">>

\* "if not content" (line 122) is false
HasContent(msg) == "content" \in DOMAIN msg /\ msg.content # <<>>

\* line 123
HasShareText(msg) == "share" \in DOMAIN msg /\ "share_text" \in DOMAIN msg.share

\* one iteration of "for msg in data.get(...)" (lines 115-149): the
\* exception it raises ("" for none) and the messages it appends
ProcessRecord(msg) ==
    LET sender == IF "sender_name" \in DOMAIN msg THEN msg.sender_name ELSE NoneValue
        content == IF HasContent(msg) THEN msg.content
                   ELSE SharedPost \o msg.share.share_text
        t == TryRepair(sender, content)
    IN  IF ~HasContent(msg) /\ ~HasShareText(msg) THEN [exc |-> "", out |-> <<>>]
        ELSE IF "timestamp_ms" \notin DOMAIN msg THEN [exc |-> "TypeError", out |-> <<>>]
        ELSE IF t.exc # "" THEN [exc |-> t.exc, out |-> <<>>]
        ELSE [exc |-> "",
              out |-> <<UnifiedMessage(fromtimestamp(msg.timestamp_ms), Instagram,
                                       t.sender, t.content)>>]

\* a < b for datetime
DtLess(a, b) ==
    LET ka == <<a.year, a.month, a.day, a.hour, a.minute, a.second, a.microsecond>>
        kb == <<b.year, b.month, b.day, b.hour, b.minute, b.second, b.microsecond>>
    IN  \E i \in 1..7 : ka[i] < kb[i] /\ \A j \in 1..(i - 1) : ka[j] = kb[j]

\* list.sort(key=lambda x: x.timestamp) (line 152): stable, by "<" on the
\* keys. InsertByTimestamp puts x into the sorted list l behind every
\* element whose key is not greater.
InsertByTimestamp_append(l, x) == Append(l, x)

InsertByTimestamp(l, x) ==
    LET n == Cardinality({i \in 1..Len(l) : ~DtLess(x.timestamp, l[i].timestamp)})
    IN  SubSeq(l, 1, n) \o <<x>> \o SubSeq(l, n + 1, Len(l))

RECURSIVE SortByTimestamp(_)
SortByTimestamp(s) ==
    IF s = <<>> THEN <<>>
    ELSE InsertByTimestamp(SortByTimestamp(SubSeq(s, 1, Len(s) - 1)), s[Len(s)])

\* ---- parse_instagram runs
MaxRecords == 3

Hi == <<"H", "i">>
\* "Caf" and the two characters a UTF-8 e-acute shows as when read as Latin-1
CafeMojibake == <<"C", "a", "f", "U+00C3", "U+00A9">>
Cafe == <<"C", "a", "f", "U+00E9">>
Euro == <<"U+20AC">>
EuroMojibake == <<"U+00E2", "U+0082", "U+00AC">>

IgRecordSet ==
    {[sender_name |-> Alice, timestamp_ms |-> 2000, content |-> Hello],
     [sender_name |-> Bob, timestamp_ms |-> 1000, content |-> Hi],
     [sender_name |-> Bob, timestamp_ms |-> 2000, content |-> Bye],
     [sender_name |-> Alice, timestamp_ms |-> 86401500, share |-> [share_text |-> Hi]],
     [sender_name |-> Alice, timestamp_ms |-> 1000, content |-> <<>>,
      share |-> [link |-> Hi]],
     [sender_name |-> Alice, timestamp_ms |-> 500],
     [content |-> <<>>],
     [sender_name |-> Alice, content |-> Hello],
     [timestamp_ms |-> 1000, content |-> Hello],
     [timestamp_ms |-> 1000, content |-> Cafe],
     [sender_name |-> EuroMojibake, timestamp_ms |-> 3000, content |-> CafeMojibake],
     [sender_name |-> CafeMojibake, timestamp_ms |-> 3000, content |-> Euro]}

IgFiles == UNION { [1..k -> IgRecordSet] : k \in 0..MaxRecords }

\* one record of the array
IgRecord ==
    /\ ig_pc = "loop"
    /\ ig_i <= Len(ig_records)
    /\ LET r == ProcessRecord(ig_records[ig_i])
       IN  /\ ig_messages' = ig_messages \o r.out
           /\ ig_pc' = IF r.exc # "" THEN r.exc ELSE "loop"
           /\ ig_i' = IF r.exc # "" THEN ig_i ELSE ig_i + 1
    /\ UNCHANGED <<ig_records, pipeVars, waVars, anVars>>

\* lines 151-154
IgReturn ==
    /\ ig_pc = "loop"
    /\ ig_i > Len(ig_records)
    /\ ig_messages' = SortByTimestamp(ig_messages)
    /\ ig_pc' = "returned"
    /\ UNCHANGED <<ig_records, ig_i, pipeVars, waVars, anVars>>

InitIG ==
    /\ PipeIdle
    /\ WaIdle
    /\ \E recs \in IgFiles :
          /\ ig_records = recs /\ ig_i = 1 /\ ig_messages = <<>> /\ ig_pc = "loop"

NextIG ==
    \/ IgRecord
    \/ IgReturn

SpecIG == InitIG /\ [][NextIG]_vars

\* ----------------------------------------------- parse_whatsapp claims
\* what a line of the file is to the parser
LineKind(raw) ==
    LET line == Strip(raw)
        m == PatternMatch(line)
    IN  IF line = <<>> THEN "blank"
        ELSE IF ~m.ok THEN "text"
        ELSE IF Strip(m.content) = MediaOmitted THEN "media"
        ELSE IF ParseTimestamp(m.date_str, m.time_str) = None THEN "badtime"
        ELSE "header"

IsHeaderKind(k) == k \in {"media", "badtime", "header"}

WaRunning == wa_pc \in {"loop", "returned"}

\* what the parser makes of the line l on its own: its kind and, for a
\* header, the fields of the message it opens
LineInfo(l) ==
    LET m == PatternMatch(Strip(l))
    IN  [raw |-> l,
         kind |-> LineKind(l),
         timestamp |-> IF m.ok THEN ParseTimestamp(m.date_str, m.time_str) ELSE None,
         sender |-> IF m.ok THEN Strip(m.sender) ELSE <<>>,
         content |-> IF m.ok THEN m.content ELSE Strip(l)]

LineTable == {LineInfo(l) : l \in WaLineSet}

\* the entry of line k of the file
Info(k) == CHOOSE e \in LineTable : e.raw = wa_lines[k]

\* the positions, in file order, of the lines read so far that are
\* headers with a parsable timestamp and content other than the marker
GoodHeaders ==
    SelectSeq([k \in 1..(wa_i - 1) |-> k], LAMBDA k : Info(k).kind = "header")

\* the last header line of any kind among the lines before position i, or 0
LastHeaderBefore(i) ==
    LET hs == {k \in 1..(i - 1) : IsHeaderKind(Info(k).kind)}
    IN  IF hs = {} THEN 0 ELSE CHOOSE a \in hs : \A b \in hs : b <= a

\* the first header line of any kind after position h among the lines read
\* so far, or wa_i when there is none
NextHeaderAfter(h) ==
    LET hs == {k \in (h + 1)..(wa_i - 1) : IsHeaderKind(Info(k).kind)}
    IN  IF hs = {} THEN wa_i ELSE CHOOSE a \in hs : \A b \in hs : a <= b

\* C12: one message per header line whose timestamp parses and whose
\* content is not the media marker, in file order; a message is in the
\* output as soon as the next header line of any kind is read, and at the
\* end of input, and no message is in the output twice.
C12_OneMessagePerGoodHeader ==
    WaRunning =>
        LET good == GoodHeaders
            n    == Len(good)
            last == LastHeaderBefore(wa_i)
            open == /\ wa_pc = "loop"
                    /\ last # 0
                    /\ Info(last).kind = "header"
            out  == WaResult
            emitted == IF open THEN n - 1 ELSE n
        IN  /\ Len(out) = emitted
            /\ \A k \in 1..emitted :
                  /\ out[k].timestamp = Info(good[k]).timestamp
                  /\ out[k].sender = Info(good[k]).sender
                  /\ out[k].platform = WhatsApp
                  /\ SubSeq(out[k].content, 1, Len(Info(good[k]).content))
                        = Info(good[k]).content
            /\ \A i, j \in 1..Len(wa_messages) :
                  i # j => wa_messages[i] # wa_messages[j]

C12_Witness ==
    /\ wa_pc = "returned"
    /\ Len(WaResult) = 2
    /\ \E i, j \in 1..Len(wa_lines) :
          /\ i < j
          /\ Info(i).kind = "header"
          /\ Info(j).kind = "badtime"
    /\ Info(Len(wa_lines)).kind = "header"

\* C13: the content of a message is its header content followed, in file
\* order, by a newline and the line for every non-blank non-header line
\* between its header and the next header line.
C13_ContinuationLines ==
    WaRunning =>
        LET good == GoodHeaders
        IN  /\ Len(wa_objs) = Len(good)
            /\ \A k \in 1..Len(good) :
                  LET h == good[k]
                      e == NextHeaderAfter(h)
                      cont == SelectSeq([j \in 1..(e - 1 - h) |-> h + j],
                                        LAMBDA j : Info(j).kind = "text")
                  IN  wa_objs[k].content
                        = Info(h).content
                          \o Flatten([x \in 1..Len(cont) |->
                                        <<"\n">> \o Info(cont[x]).content])

C13_Witness ==
    /\ wa_pc = "returned"
    /\ Len(WaResult) = 2
    /\ WaResult[1].content = Hello \o <<"\n", "t", "h", "e", "r", "e">>
                                   \o <<"\n", "t", "h", "e", "r", "e">>
    /\ WaResult[2].content = Bye

\* C14: a media-omitted header creates no message and leaves no message
\* open, and while no message is open a non-header line changes nothing.
C14_MediaLeavesNothingOpen ==
    [][(wa_pc = "loop" /\ wa_i <= Len(wa_lines)) =>
          /\ Info(wa_i).kind = "media" =>
                (current_msg' = 0 /\ wa_objs' = wa_objs)
          /\ (current_msg = 0 /\ Info(wa_i).kind \in {"text", "blank"}) =>
                (current_msg' = 0 /\ wa_objs' = wa_objs /\ wa_messages' = wa_messages)
      ]_vars

C14_Witness ==
    /\ wa_pc = "returned"
    /\ wa_lines = <<LineHello, LineMedia, LineThere, LineBye>>
    /\ Len(WaResult) = 2
    /\ WaResult[1].content = Hello
    /\ WaResult[2].content = Bye

\* the message open when line i is read: its position in wa_objs, or 0
OpenAt(i) ==
    LET last == LastHeaderBefore(i)
    IN  IF last # 0 /\ Info(last).kind = "header"
        THEN Cardinality({k \in 1..last : Info(k).kind = "header"})
        ELSE 0

\* C15 as claimed: the message open when a media-omitted header arrives
\* does not appear in the returned sequence.
C15_OpenDiscardedOnMedia ==
    wa_pc = "returned" =>
        \A i \in 1..Len(wa_lines) :
            (Info(i).kind = "media" /\ OpenAt(i) # 0)
                => \A x \in 1..Len(wa_messages) : wa_messages[x] # OpenAt(i)

\* C15 as amended: the message open when a media-omitted header arrives
\* appears exactly once in the returned sequence.
C15_OpenFinalizedOnMedia ==
    wa_pc = "returned" =>
        \A i \in 1..Len(wa_lines) :
            (Info(i).kind = "media" /\ OpenAt(i) # 0)
                => Cardinality({x \in 1..Len(wa_messages) :
                                    wa_messages[x] = OpenAt(i)}) = 1

C15_Witness ==
    /\ wa_pc = "returned"
    /\ wa_lines = <<LineHello, LineThere, LineMedia, LineBye>>
    /\ Len(WaResult) = 2
    /\ WaResult[1].content = Hello \o <<"\n", "t", "h", "e", "r", "e">>

\* C16: a header whose date and time no format parses creates no message,
\* changes no message, leaves no message open and lets the loop go on; a
\* header that parses opens a new message whatever came before.
C16_BadTimestampDropped ==
    [][(wa_pc = "loop" /\ wa_i <= Len(wa_lines)) =>
          /\ Info(wa_i).kind = "badtime" =>
                /\ wa_objs' = wa_objs
                /\ current_msg' = 0
                /\ wa_pc' = "loop" /\ wa_i' = wa_i + 1
          /\ Info(wa_i).kind = "header" =>
                /\ Len(wa_objs') = Len(wa_objs) + 1
                /\ current_msg' = Len(wa_objs')
      ]_vars

C16_Witness ==
    /\ wa_pc = "returned"
    /\ wa_lines = <<LineHello, LineBadDate, LineThere, LineBye>>
    /\ Len(WaResult) = 2
    /\ WaResult[1].content = Hello
    /\ WaResult[2].content = Bye

\* C17: headers with the same date and 12-hour digits and the same AM/PM
\* marker give the same instant whether the marker follows a space, nothing
\* or a narrow no-break space, and whatever its letter case; 05/03/24 with
\* 11:59 PM is 2024-03-05T23:59.
C17_MarkerVariantsSameInstant ==
    wa_pc = "returned" =>
        \A t \in MarkerTimes : \A s1 \in MarkerSeps : \A m1 \in Markers :
            wa_lines[1] = MarkerLine(t, s1, m1) =>
                \A s2 \in MarkerSeps : \A m2 \in Markers :
                    (/\ ToUpper(m1) = ToUpper(m2)
                     /\ wa_lines[2] = MarkerLine(t, s2, m2))
                    => /\ Len(WaResult) = 2
                       /\ WaResult[1].timestamp = WaResult[2].timestamp
                       /\ (t = <<"1", "1", ":", "5", "9">> /\ ToUpper(m1) = <<"P", "M">>)
                            => WaResult[1].timestamp
                                 = [year |-> 2024, month |-> 3, day |-> 5, hour |-> 23,
                                    minute |-> 59, second |-> 0, microsecond |-> 0]

C17_Witness ==
    /\ wa_pc = "returned"
    /\ wa_lines = <<MarkerLine(<<"1", "1", ":", "5", "9">>, <<>>, <<"p", "M">>),
                    MarkerLine(<<"1", "1", ":", "5", "9">>, <<NNBSP>>, <<"P", "m">>)>>
    /\ Len(WaResult) = 2
    /\ isoformat(WaResult[2].timestamp)
         = <<"2", "0", "2", "4", "-", "0", "3", "-", "0", "5", "T",
             "2", "3", ":", "5", "9", ":", "0", "0">>

\* ---------------------------------------------- parse_instagram claims
\* the positions, in array order, of the records read so far that have a
\* text body or share text
KeptRecords(upto) ==
    SelectSeq([k \in 1..upto |-> k],
              LAMBDA k : HasContent(ig_records[k]) \/ HasShareText(ig_records[k]))

\* content c comes from x: it is x, or x with the mis-encoding repaired
DerivedFrom(c, x) == c = x \/ (Repair(x).ok /\ c = Repair(x).v)

\* C18: parse_instagram returns the retained messages in non-decreasing
\* timestamp order, and messages with equal timestamps keep the relative
\* order they had in the input array.
C18_SortedStable ==
    [][(ig_pc = "loop" /\ ig_pc' = "returned") =>
          LET in  == ig_messages
              out == ig_messages'
              n   == Len(in)
          IN  /\ Len(out) = n
              /\ \A k \in 1..(n - 1) : ~DtLess(out[k + 1].timestamp, out[k].timestamp)
              /\ n > 0 =>
                    \E p \in Permutations(1..n) :
                        /\ \A k \in 1..n : out[k] = in[p[k]]
                        /\ \A i, j \in 1..n :
                              (i < j /\ out[i].timestamp = out[j].timestamp)
                                  => p[i] < p[j]
      ]_vars

C18_Witness ==
    /\ ig_pc = "returned"
    /\ ig_records = <<[sender_name |-> Alice, timestamp_ms |-> 2000, content |-> Hello],
                      [sender_name |-> Bob, timestamp_ms |-> 2000, content |-> Bye],
                      [sender_name |-> Bob, timestamp_ms |-> 1000, content |-> Hi]>>
    /\ Len(ig_messages) = 3
    /\ ig_messages[1].content = Hi
    /\ ig_messages[2].content = Hello
    /\ ig_messages[3].content = Bye

\* C19: every record is handled; a record with a text body gives a
\* message whose content comes from the body, a record without one but with
\* share text gives "[Shared Post] " and the share text, any other record
\* gives nothing, and the output has one message per record of the first
\* two kinds.
C19_ContentFromBodyOrShare ==
    /\ ig_pc \in {"idle", "loop", "returned"}
    /\ ig_pc = "loop" =>
          LET kept == KeptRecords(ig_i - 1)
          IN  /\ Len(ig_messages) = Len(kept)
              /\ \A k \in 1..Len(kept) :
                    LET msg == ig_records[kept[k]]
                    IN  IF HasContent(msg)
                        THEN DerivedFrom(ig_messages[k].content, msg.content)
                        ELSE DerivedFrom(ig_messages[k].content,
                                         SharedPost \o msg.share.share_text)
    /\ ig_pc = "returned" => Len(ig_messages) = Len(KeptRecords(Len(ig_records)))

\* a record with content, a sender name and a timestamp
ValidRecord(msg) ==
    /\ HasContent(msg) \/ HasShareText(msg)
    /\ "sender_name" \in DOMAIN msg
    /\ "timestamp_ms" \in DOMAIN msg

\* C20: no record aborts parse_instagram; when the call ends it has
\* returned, and every valid record of the array has its message in the
\* output.
C20_BadRecordNotFatal ==
    ig_pc \notin {"idle", "loop"} =>
        /\ ig_pc = "returned"
        /\ \A k \in 1..Len(ig_records) :
              ValidRecord(ig_records[k]) =>
                  \E x \in 1..Len(ig_messages) :
                      /\ ig_messages[x].timestamp = fromtimestamp(ig_records[k].timestamp_ms)
                      /\ DerivedFrom(ig_messages[x].sender, ig_records[k].sender_name)

\* ------------------------------------------------ merging the shards
\* C21: with no exact artifact, the merged data is the data of the
\* numbered shards concatenated in ascending shard number (part2 before
\* part10), and meta and columns are those of shard 1.
C21_MergeInShardNumberOrder ==
    (pc = "done" /\ ExactName \notin DOMAIN files /\ Len(created_paths) >= 1) =>
        /\ ~LoadFailed
        /\ loaded.data
              = Flatten([k \in 1..Len(created_paths) |->
                            json_load(files[PartName(k)]).data])
        /\ loaded.meta = json_load(files[PartName(1)]).meta
        /\ loaded.columns = json_load(files[PartName(1)]).columns

\* ------------------------------------- repeated saves into one directory
MaxSaves == 2     \* greatest number of save_optimized_json calls on the path

ResaveInputs ==
    { <<>>,
      <<UnifiedMessage(T1, WhatsApp, Alice, Hello)>>,
      <<UnifiedMessage(T1, WhatsApp, Alice, Hello),
        UnifiedMessage(T3, Instagram, Alice, SayHi)>>,
      <<UnifiedMessage(T3, Instagram, Bob, SayHi),
        UnifiedMessage(T1, WhatsApp, Alice, Hello),
        UnifiedMessage(T2, WhatsApp, Bob, HelloThere)>> }

ResaveBudgets == {20, DefaultMaxTokens}

InitResave ==
    /\ messages \in ResaveInputs
    /\ max_tokens \in ResaveBudgets
    /\ pc = "convert"
    /\ optimized_data = None
    /\ roundtrip = <<>>
    /\ split = NoSplit
    /\ row_i = 0
    /\ created_paths = <<>>
    /\ files = EmptyDir
    /\ loaded = None
    /\ decoded = <<>>
    /\ saves = 0
    /\ WaIdle
    /\ IgIdle
    /\ AnIdle

\* a later run converts and saves another dataset to the same path; the
\* directory is as the earlier runs left it
SaveAgain ==
    /\ pc = "done"
    /\ saves + 1 < MaxSaves
    /\ messages' \in ResaveInputs
    /\ max_tokens' \in ResaveBudgets
    /\ pc' = "convert"
    /\ optimized_data' = None
    /\ roundtrip' = <<>>
    /\ split' = NoSplit
    /\ row_i' = 0
    /\ created_paths' = <<>>
    /\ loaded' = None
    /\ decoded' = <<>>
    /\ saves' = saves + 1
    /\ UNCHANGED <<files, waVars, igVars, anVars>>

NextResave ==
    \/ Next
    \/ SaveAgain

SpecResave == InitResave /\ [][NextResave]_vars

\* the numbered shards of the requested name present in a directory
NumberedShards(fs) ==
    {n \in DOMAIN fs : \E k \in 1..(MaxSaves * MaxRows) : n = PartName(k)}

\* rows is found as one contiguous run of data
IsSliceOf(rows, data) ==
    \E o \in 0..(Len(data) - Len(rows)) :
        \A j \in 1..Len(rows) : data[o + j] = rows[j]

\* C22: a load returns the exact artifact's content whenever that file
\* exists, otherwise the merge of the numbered shards when there is one,
\* and fails with the not-found error exactly when there is neither; the
\* directory is the same after the call.
C22_ExactElseMergeElseNotFound ==
    [][(pc = "load" /\ pc' = "decode") =>
        /\ files' = files
        /\ (ExactName \in DOMAIN files) =>
              loaded' = json_load(files[ExactName])
        /\ (ExactName \notin DOMAIN files /\ NumberedShards(files) # {}) =>
              /\ "error" \notin DOMAIN loaded'
              /\ Len(loaded'.data)
                    = SumSeq([k \in 1..Len(SortedNames(NumberedShards(files))) |->
                        Len(json_load(files[SortedNames(NumberedShards(files))[k]]).data)])
              /\ \A n \in NumberedShards(files) :
                    IsSliceOf(json_load(files[n]).data, loaded'.data)
        /\ ("error" \in DOMAIN loaded')
              <=> (ExactName \notin DOMAIN files /\ NumberedShards(files) = {})
        /\ ("error" \in DOMAIN loaded') => loaded'.error = "FileNotFoundError"
    ]_vars

\* a load has returned the exact file although numbered shards with other
\* rows lie next to it
C22_Witness ==
    /\ pc = "decode"
    /\ ExactName \in DOMAIN files
    /\ PartName(2) \in DOMAIN files
    /\ loaded = json_load(files[ExactName])
    /\ loaded.data # <<>>

\* a load has failed on a directory with neither file
C22_NotFoundWitness ==
    /\ pc = "decode"
    /\ saves = 1
    /\ LoadFailed
    /\ files = EmptyDir

\* C28: after several saves to the same path, when the latest save wrote
\* its files, a load returns the dataset of the latest save.
C28_LatestSaveLoaded ==
    (pc = "done" /\ saves >= 1 /\ Len(created_paths) >= 1) =>
        /\ ~LoadFailed
        /\ loaded.meta = optimized_data.meta
        /\ loaded.columns = optimized_data.columns
        /\ loaded.data = optimized_data.data

\* ---------------------------------- decoding rows with any index values
MaxDecodeRows == 2     \* greatest number of rows of a dataset to decode

\* index values below, inside and above the range of the meta lists
IndexValues == {0 - 1, 0, 1, 2}

DecodeMetas ==
    { [platforms |-> <<>>, senders |-> <<>>],
      [platforms |-> <<WhatsApp>>, senders |-> <<Alice, Bob>>],
      [platforms |-> <<WhatsApp, Instagram>>, senders |-> <<Alice>>] }

DecodeRows ==
    { <<isoformat(T3), p_idx, s_idx, Hello>> :
          p_idx \in IndexValues, s_idx \in IndexValues }

\* datasets in the artifact schema whose indices need not be in range
DecodeInputs ==
    { [meta |-> m, columns |-> Columns, data |-> rows] :
          m \in DecodeMetas,
          rows \in UNION { [1..k -> DecodeRows] : k \in 0..MaxDecodeRows } }

InitDecode ==
    /\ messages = <<>>
    /\ max_tokens = DefaultMaxTokens
    /\ pc = "load"
    /\ optimized_data = None
    /\ roundtrip = <<>>
    /\ split = NoSplit
    /\ row_i = 0
    /\ created_paths = <<>>
    /\ files \in {WriteFile(EmptyDir, ExactName, json_dump(d)) : d \in DecodeInputs}
    /\ loaded = None
    /\ decoded = <<>>
    /\ saves = 0
    /\ WaIdle
    /\ IgIdle
    /\ AnIdle

NextDecode ==
    \/ Load
    \/ Decode

SpecDecode == InitDecode /\ [][NextDecode]_vars

InRange(idx, lst) == 0 <= idx /\ idx < Len(lst)

\* C23: decoding never fails on an index: the output has one message per
\* row in row order, a platform_idx or sender_idx that is negative or not
\* below the length of its meta list gives "Unknown" for that field, and
\* every other field of every row is decoded from the row.
C23_OutOfRangeIsUnknown ==
    pc = "done" =>
        /\ ~LoadFailed
        /\ Len(decoded) = Len(loaded.data)
        /\ \A k \in 1..Len(loaded.data) :
              LET row == loaded.data[k]
              IN  /\ decoded[k].timestamp = fromisoformat(row[1])
                  /\ decoded[k].content = row[4]
                  /\ decoded[k].platform
                        = IF InRange(row[2], loaded.meta.platforms)
                          THEN loaded.meta.platforms[row[2] + 1] ELSE Unknown
                  /\ decoded[k].sender
                        = IF InRange(row[3], loaded.meta.senders)
                          THEN loaded.meta.senders[row[3] + 1] ELSE Unknown

\* a dataset was decoded whose first row has a negative platform_idx and a
\* sender_idx in range, and whose second row has a sender_idx too large
C23_Witness ==
    /\ pc = "done"
    /\ Len(decoded) = 2
    /\ loaded.data[1][2] < 0
    /\ decoded[1].platform = Unknown
    /\ decoded[1].sender = Bob
    /\ loaded.data[2][3] >= Len(loaded.meta.senders)
    /\ decoded[2].sender = Unknown
    /\ decoded[2].platform = WhatsApp

\* ------------------------------------------- an ingestion run of main
\* all_messages after the two extend calls: the parsed WhatsApp messages
\* followed by the parsed Instagram messages, in any order of timestamps
InitMain ==
    /\ messages \in Inputs
    /\ max_tokens \in Budgets
    /\ pc = "ingested"
    /\ optimized_data = None
    /\ roundtrip = <<>>
    /\ split = NoSplit
    /\ row_i = 0
    /\ created_paths = <<>>
    /\ files = EmptyDir
    /\ loaded = None
    /\ decoded = <<>>
    /\ saves = 0
    /\ WaIdle
    /\ IgIdle
    /\ AnIdle

\* "if not all_messages: return"
NoMessages ==
    /\ pc = "ingested"
    /\ messages = <<>>
    /\ pc' = "exit"
    /\ UNCHANGED <<messages, max_tokens, optimized_data, roundtrip, split, row_i,
                   created_paths, files, loaded, decoded>>
    /\ UNCHANGED <<saves, waVars, igVars, anVars>>

\* all_messages.sort(key=lambda x: x.timestamp)
SortMessages ==
    /\ pc = "ingested"
    /\ messages # <<>>
    /\ messages' = SortByTimestamp(messages)
    /\ pc' = "convert"
    /\ UNCHANGED <<max_tokens, optimized_data, roundtrip, split, row_i,
                   created_paths, files, loaded, decoded>>
    /\ UNCHANGED <<saves, waVars, igVars, anVars>>

NextMain ==
    \/ NoMessages
    \/ SortMessages
    \/ Next

SpecMain == InitMain /\ [][NextMain]_vars

\* a sequence of datetimes in ascending order
Ascending(ts) == \A k \in 1..(Len(ts) - 1) : ~DtLess(ts[k + 1], ts[k])

RowTimes(rows) == [k \in 1..Len(rows) |-> fromisoformat(rows[k][1])]

MessageTimes(msgs) == [k \in 1..Len(msgs) |-> msgs[k].timestamp]

\* the sequence handed to the encoder is sorted by timestamp
C24_EncoderInputSorted ==
    pc \notin {"ingested", "exit"} => Ascending(MessageTimes(messages))

\* the encoded rows and the shards in shard-number order are sorted
C24_RowsAndShardsSorted ==
    /\ pc \notin {"ingested", "exit", "convert"} =>
          Ascending(RowTimes(optimized_data.data))
    /\ Saved =>
          Ascending(RowTimes(Flatten([k \in 1..Len(created_paths) |-> ShardRows(k)])))

\* C24: in an ingestion run the sequence given to the encoder is sorted
\* ascending by timestamp, and so are the encoded rows, the concatenation
\* of the shards in shard-number order and the decode of the merged
\* dataset.
C24_ChronologicalEndToEnd ==
    /\ C24_EncoderInputSorted
    /\ C24_RowsAndShardsSorted
    /\ (pc = "done" /\ ~LoadFailed) => Ascending(MessageTimes(decoded))

\* -------------------------------------- appended messages are final
\* C25: in every step of parse_whatsapp the messages already in the
\* output list keep their place and all their fields, and while lines are
\* still read the open accumulator is none of the messages of the list.
C25_AppendedNeverChanges ==
    [][wa_pc = "loop" =>
        /\ Len(wa_messages') >= Len(wa_messages)
        /\ \A k \in 1..Len(wa_messages) :
              /\ wa_messages'[k] = wa_messages[k]
              /\ wa_objs'[wa_messages[k]] = wa_objs[wa_messages[k]]
        /\ wa_pc' = "loop" =>
              \A k \in 1..Len(wa_messages') : wa_messages'[k] # current_msg'
    ]_vars

\* a continuation line has lengthened the open message while an earlier
\* message, itself lengthened before, is in the output list
C25_Witness ==
    /\ wa_pc = "loop"
    /\ Len(wa_messages) >= 1
    /\ current_msg # 0
    /\ \E j \in 1..Len(wa_objs[current_msg].content) :
          wa_objs[current_msg].content[j] = "\n"
    /\ \E j \in 1..Len(wa_objs[wa_messages[1]].content) :
          wa_objs[wa_messages[1]].content[j] = "\n"

\* ------------------------------------------- the mis-encoding repair
\* the repaired string when the repair of x succeeds, else x
RepairedOrKept(x) == IF Repair(x).ok THEN Repair(x).v ELSE x

\* C26: a record with a sender, a timestamp and content appends one
\* message whose sender is the repaired sender name when that repair
\* succeeds and the sender name itself otherwise, and whose content is
\* the repaired content when that repair succeeds and the content itself
\* otherwise.
C26_RepairEachOnItsOwn ==
    [][(ig_pc = "loop" /\ ig_i <= Len(ig_records) /\ ValidRecord(ig_records[ig_i])) =>
        LET msg == ig_records[ig_i]
            content == IF HasContent(msg) THEN msg.content
                       ELSE SharedPost \o msg.share.share_text
        IN  /\ Len(ig_messages') = Len(ig_messages) + 1
            /\ ig_messages'[Len(ig_messages')].sender = RepairedOrKept(msg.sender_name)
            /\ ig_messages'[Len(ig_messages')].content = RepairedOrKept(content)
    ]_vars

\* ------------------------------------------ content is never empty
\* a header with nothing after the sender separator, and one whose body
\* is a colon
LineNoBody == HeaderLine(<<"0", "1", "/", "0", "2", "/", "2", "0", "2", "4">>, <<"1", "4", ":", "0", "5">>, Alice, <<>>)
LineColonBody == HeaderLine(<<"0", "1", "/", "0", "2", "/", "2", "0", "2", "4">>, <<"1", "4", ":", "0", "5">>, Alice, <<":", " ">>)

ContentLines == {LineHello, LineNoBody, LineColonBody, LineThere, LineBlank}

ContentFiles == UNION { [1..k -> ContentLines] : k \in 0..MaxLines }

\* records with a body, an empty body or none, with and without share text
ContentRecords ==
    {[sender_name |-> Alice, timestamp_ms |-> 2000, content |-> Hello],
     [sender_name |-> Bob, timestamp_ms |-> 1000, content |-> CafeMojibake],
     [sender_name |-> Alice, timestamp_ms |-> 3000, content |-> <<>>,
      share |-> [share_text |-> Hi]],
     [sender_name |-> Alice, timestamp_ms |-> 3000, share |-> [share_text |-> <<>>]],
     [sender_name |-> Alice, timestamp_ms |-> 1000, content |-> <<>>,
      share |-> [link |-> Hi]],
     [sender_name |-> Bob, timestamp_ms |-> 500]}

ContentArrays == UNION { [1..k -> ContentRecords] : k \in 0..MaxRecords }

\* one call of parse_whatsapp or one call of parse_instagram
InitContent ==
    /\ PipeIdle
    /\ \/ IgIdle /\ \E lines \in ContentFiles : WaStart(lines)
       \/ /\ WaIdle
          /\ \E recs \in ContentArrays :
                /\ ig_records = recs /\ ig_i = 1 /\ ig_messages = <<>>
                /\ ig_pc = "loop"

NextContent ==
    \/ NextWA
    \/ NextIG

SpecContent == InitContent /\ [][NextContent]_vars

IsPrefix(p, x) == Len(p) <= Len(x) /\ SubSeq(x, 1, Len(p)) = p

\* no message, open or listed, has empty content
ContentNonEmpty ==
    /\ \A k \in 1..Len(wa_objs) : wa_objs[k].content # <<>>
    /\ \A k \in 1..Len(ig_messages) : ig_messages[k].content # <<>>

\* a WhatsApp line creates no message when nothing follows the sender
\* separator, and never shortens the content of a message
WhatsAppContentStep ==
    (wa_pc = "loop" /\ wa_i <= Len(wa_lines)) =>
        /\ wa_lines[wa_i] = LineNoBody => Len(wa_objs') = Len(wa_objs)
        /\ \A k \in 1..Len(wa_objs) :
              IsPrefix(wa_objs[k].content, wa_objs'[k].content)

\* an Instagram record without a text body is dropped or gets the
\* shared-post content
InstagramContentStep ==
    (ig_pc = "loop" /\ ig_i <= Len(ig_records) /\ ~HasContent(ig_records[ig_i])) =>
        IF HasShareText(ig_records[ig_i])
        THEN /\ Len(ig_messages') = Len(ig_messages) + 1
             /\ IsPrefix(SharedPost, ig_messages'[Len(ig_messages')].content)
        ELSE ig_messages' = ig_messages

\* C27: every message of parse_whatsapp and of parse_instagram has
\* non-empty content: a WhatsApp header with nothing after the sender
\* separator opens no message, a continuation only lengthens content, and
\* an Instagram record with an empty or missing body either gets the
\* shared-post content or is dropped.
C27_ContentNeverEmpty ==
    /\ []ContentNonEmpty
    /\ [][WhatsAppContentStep /\ InstagramContentStep]_vars

\* parse_whatsapp has returned one message, a header with nothing after
\* the separator having been read as a continuation line
C27_Witness ==
    /\ wa_pc = "returned"
    /\ wa_lines = <<LineHello, LineNoBody>>
    /\ Len(wa_messages) = 1
    /\ Len(WaResult[1].content) = Len(Hello) + Len(LineNoBody)
    /\ ContentNonEmpty

\* parse_instagram has returned a message made of the shared-post prefix
\* alone, the share text being empty
C27_SharedPostWitness ==
    /\ ig_pc = "returned"
    /\ Len(ig_messages) >= 1
    /\ ig_messages[1].content = SharedPost

\* ------------------------------------------------- the analysis phase
cooldown_duration == 90

max_retries == 10

MaxChunks == 2     \* greatest number of chunks of a run

\* KeyManager.__init__ (line 20): accounts without keys are left out
KeyManagerInit(raw) == SelectSeq(raw, LAMBDA keys : keys # <<>>)

\* GEMINI_ACCOUNT_KEYS: two accounts, or one account with three keys
KeyConfigs == { << <<"A1", "A2">>, <<"B1">> >>, << <<"A1", "A2", "A3">> >> }

\* seconds a request takes beyond the sleep of line 179
Latencies == {0, cooldown_duration - 1}

\* what model.generate_content and json.loads give: a non-empty result, an
\* empty one, an error whose text holds "429", any other error
Outcomes == {"result", "empty", "429", "error"}

NoCheckpoint == [exists |-> FALSE, results |-> <<>>]

\* line 39: the account is not in cooldown at time t
Available_always(cooldowns, acc_idx, t) == TRUE

Available(cooldowns, acc_idx, t) ==
    acc_idx \notin DOMAIN cooldowns \/ t > cooldowns[acc_idx]

\* line 53: min(self.account_cooldowns.values())
EarliestTime(cooldowns) ==
    CHOOSE t \in {cooldowns[a] : a \in DOMAIN cooldowns} :
        \A a \in DOMAIN cooldowns : t <= cooldowns[a]

\* line 69: self.account_cooldowns[acc_idx] = time.time() + cooldown_duration
SetCooldown(cooldowns, acc_idx, t) ==
    [a \in (DOMAIN cooldowns) \cup {acc_idx} |->
        IF a = acc_idx THEN t + cooldown_duration ELSE cooldowns[a]]

\* lines 50 and 72: the next account, round the list
NextAccount(acc_idx, n) == (acc_idx + 1) % n

\* a process starts the analysis phase on n chunks: the KeyManager is
\* built from the configured keys, nothing is in memory yet
AnStart(raw, n) ==
    /\ account_keys = KeyManagerInit(raw)
    /\ current_acc_idx = 0
    /\ current_key_indices = [k \in 1..Len(KeyManagerInit(raw)) |-> 0]
    /\ account_cooldowns = <<>>
    /\ now = 0 /\ scan = 0 /\ api_key = "" /\ attempt = 0
    /\ chunk_results = <<>>
    /\ checkpoint = NoCheckpoint
    /\ an_i = 0
    /\ total_chunks = n
    /\ an_pc = "start"
    /\ runs = 1

kmVars == <<account_keys, current_acc_idx, current_key_indices, account_cooldowns>>

\* main, lines 203-218: load the checkpoint when the file exists and start
\* from where it left off
RunStart ==
    /\ an_pc = "start"
    /\ chunk_results' = IF checkpoint.exists THEN checkpoint.results ELSE <<>>
    /\ an_i' = IF checkpoint.exists THEN Len(checkpoint.results) ELSE 0
    /\ an_pc' = "loop"
    /\ UNCHANGED <<kmVars, now, scan, api_key, attempt, checkpoint, total_chunks, runs>>
    /\ UNCHANGED <<pipeVars, waVars, igVars>>

\* main, lines 220-223: the next chunk is handed to analyze_chunk
ChunkBegin ==
    /\ an_pc = "loop"
    /\ an_i < total_chunks
    /\ attempt' = 0
    /\ an_pc' = "attempt"
    /\ UNCHANGED <<kmVars, now, scan, api_key, chunk_results, checkpoint, an_i,
                   total_chunks, runs>>
    /\ UNCHANGED <<pipeVars, waVars, igVars>>

\* main, line 220: the range is exhausted
LoopEnd ==
    /\ an_pc = "loop"
    /\ an_i >= total_chunks
    /\ an_pc' = "finished"
    /\ UNCHANGED <<kmVars, now, scan, api_key, attempt, chunk_results, checkpoint,
                   an_i, total_chunks, runs>>
    /\ UNCHANGED <<pipeVars, waVars, igVars>>

\* main, lines 223-229, for the value analyze_chunk returned: a non-empty
\* result is appended and the checkpoint is written, an empty one is not
ChunkReturned(result_empty) ==
    /\ chunk_results' = IF result_empty THEN chunk_results
                        ELSE Append(chunk_results, [chunk |-> an_i])
    /\ checkpoint' = IF result_empty THEN checkpoint
                     ELSE [exists |-> TRUE,
                           results |-> Append(chunk_results, [chunk |-> an_i])]
    /\ an_i' = an_i + 1
    /\ an_pc' = "loop"

\* analyze_chunk, lines 168-173: one more attempt asks for a key; after
\* max_retries attempts, or with no keys at all, the result is empty
AttemptBegin ==
    /\ an_pc = "attempt"
    /\ IF attempt < max_retries /\ account_keys # <<>>
       THEN /\ scan' = 0
            /\ an_pc' = "getkey"
            /\ UNCHANGED <<chunk_results, checkpoint, an_i>>
       ELSE /\ ChunkReturned(TRUE)
            /\ UNCHANGED scan
    /\ UNCHANGED <<kmVars, now, api_key, attempt, total_chunks, runs>>
    /\ UNCHANGED <<pipeVars, waVars, igVars>>

\* get_active_key, one iteration of the loop of lines 36-50
ScanAccount ==
    /\ an_pc = "getkey"
    /\ scan < Len(account_keys)
    /\ IF Available(account_cooldowns, current_acc_idx, now)
       THEN /\ current_key_indices' =
                  [current_key_indices EXCEPT ![current_acc_idx + 1] = @ + 1]
            /\ api_key' = account_keys[current_acc_idx + 1][
                  (current_key_indices[current_acc_idx + 1]
                     % Len(account_keys[current_acc_idx + 1])) + 1]
            /\ an_pc' = "request"
            /\ UNCHANGED <<current_acc_idx, scan>>
       ELSE /\ current_acc_idx' = NextAccount(current_acc_idx, Len(account_keys))
            /\ scan' = scan + 1
            /\ UNCHANGED <<current_key_indices, api_key, an_pc>>
    /\ UNCHANGED <<account_keys, account_cooldowns, now, attempt, chunk_results,
                   checkpoint, an_i, total_chunks, runs>>
    /\ UNCHANGED <<pipeVars, waVars, igVars>>

\* get_active_key, lines 52-60: every account is cooling down; sleep until
\* one second after the earliest deadline and start again. With nothing to
\* wait for the call starts again at once, and reads the clock later
AllCooling ==
    /\ an_pc = "getkey"
    /\ scan >= Len(account_keys)
    /\ now' = IF EarliestTime(account_cooldowns) - now > 0
              THEN now + (EarliestTime(account_cooldowns) - now) + 1
              ELSE now + 1
    /\ scan' = 0
    /\ UNCHANGED <<kmVars, api_key, attempt, chunk_results, checkpoint, an_i,
                   total_chunks, an_pc, runs>>
    /\ UNCHANGED <<pipeVars, waVars, igVars>>

\* analyze_chunk, lines 174-192: the request is made with the key; a 429
\* puts the current account in cooldown (lines 66-72) and the next attempt
\* follows, every other outcome ends the call
Request ==
    /\ an_pc = "request"
    /\ \E outcome \in Outcomes, latency \in Latencies :
          /\ now' = now + 1 + latency
          /\ IF outcome = "429"
             THEN /\ account_cooldowns' =
                        SetCooldown(account_cooldowns, current_acc_idx, now + 1 + latency)
                  /\ current_acc_idx' = NextAccount(current_acc_idx, Len(account_keys))
                  /\ attempt' = attempt + 1
                  /\ an_pc' = "attempt"
                  /\ UNCHANGED <<chunk_results, checkpoint, an_i>>
             ELSE /\ ChunkReturned(outcome # "result")
                  /\ UNCHANGED <<account_cooldowns, current_acc_idx, attempt>>
    /\ UNCHANGED <<account_keys, current_key_indices, scan, api_key, total_chunks, runs>>
    /\ UNCHANGED <<pipeVars, waVars, igVars>>

InitKeys ==
    /\ PipeIdleNoAn
    /\ WaIdle
    /\ IgIdle
    /\ \E raw \in KeyConfigs, n \in 1..MaxChunks : AnStart(raw, n)

NextKeys ==
    \/ RunStart
    \/ ChunkBegin
    \/ LoopEnd
    \/ AttemptBegin
    \/ ScanAccount
    \/ AllCooling
    \/ Request

SpecKeys == InitKeys /\ [][NextKeys]_vars

\* ------------------------------------------ resuming from the checkpoint
MaxRuns == 2     \* greatest number of runs of main on one checkpoint file

\* the process ends between two chunks or after the last one, and main is
\* run again on the same chunks with the checkpoint file as it was left:
\* a new KeyManager, nothing in memory
Restart ==
    /\ an_pc \in {"loop", "finished"}
    /\ runs < MaxRuns
    /\ runs' = runs + 1
    /\ current_acc_idx' = 0
    /\ current_key_indices' = [k \in 1..Len(account_keys) |-> 0]
    /\ account_cooldowns' = <<>>
    /\ scan' = 0 /\ api_key' = "" /\ attempt' = 0
    /\ chunk_results' = <<>>
    /\ an_i' = 0
    /\ an_pc' = "start"
    /\ UNCHANGED <<account_keys, now, checkpoint, total_chunks>>
    /\ UNCHANGED <<pipeVars, waVars, igVars>>

InitResume ==
    /\ PipeIdleNoAn
    /\ WaIdle
    /\ IgIdle
    /\ \E n \in 1..MaxChunks : AnStart(<< <<"A1">> >>, n)

NextResume ==
    \/ NextKeys
    \/ Restart

SpecResume == InitResume /\ [][NextResume]_vars

\* the chunks whose result is in the checkpoint file
StoredChunks == {checkpoint.results[k].chunk : k \in 1..Len(checkpoint.results)}

\* the first chunk without a stored result, total_chunks when there is none
FirstMissing ==
    CHOOSE c \in 0..total_chunks :
        /\ c = total_chunks \/ c \notin StoredChunks
        /\ \A b \in 0..(c - 1) : b \in StoredChunks

\* the i-th entry of the checkpoint is the result of chunk i
C29_EntryIsItsChunk ==
    \A k \in 1..Len(checkpoint.results) : checkpoint.results[k].chunk = k - 1

\* a chunk handed to analyze_chunk has no stored result
C29_NeverReanalyzes == an_pc = "attempt" => an_i \notin StoredChunks

\* a run starts at the first chunk that has no stored result
C29_StartsAtFirstMissing == [][an_pc = "start" => an_i' = FirstMissing]_vars

\* C29: the i-th entry of the checkpoint is always the result of chunk i,
\* also after chunks that returned an empty result, and no chunk whose
\* result is stored is analyzed again.
C29_ResumeAtFirstMissing ==
    /\ C29_EntryIsItsChunk
    /\ C29_NeverReanalyzes

\* ------------------------------------------------ the keys handed out
\* the key is one of the keys of account acc_idx
KeyOf(key, acc_idx) ==
    \E j \in 1..Len(account_keys[acc_idx + 1]) : account_keys[acc_idx + 1][j] = key

\* the key that follows key in the list of account acc_idx, round the list
KeyAfter(key, acc_idx) ==
    LET keys == account_keys[acc_idx + 1]
        j == CHOOSE i \in 1..Len(keys) : keys[i] = key
    IN  keys[(j % Len(keys)) + 1]

\* get_active_key returns in this step
KeyReturned == an_pc = "getkey" /\ an_pc' = "request"

\* mark_current_account_exhausted is called in this step
MarkedExhausted == an_pc = "request" /\ an_pc' = "attempt"

\* the account of the returned key is not in cooldown, current_acc_idx
\* is that account, and the key is the next one of its list
ReturnedKeyStep ==
    KeyReturned =>
        /\ current_acc_idx' \notin DOMAIN account_cooldowns'
              \/ now' > account_cooldowns'[current_acc_idx']
        /\ KeyOf(api_key', current_acc_idx')
        /\ api_key' = account_keys[current_acc_idx' + 1][
              (current_key_indices[current_acc_idx' + 1]
                 % Len(account_keys[current_acc_idx' + 1])) + 1]
        /\ (api_key # "" /\ KeyOf(api_key, current_acc_idx')) =>
              api_key' = KeyAfter(api_key, current_acc_idx')
        /\ \A k \in 1..Len(account_keys) :
              current_key_indices'[k]
                = current_key_indices[k] + (IF k = current_acc_idx' + 1 THEN 1 ELSE 0)

\* exactly the account the last key came from is put in cooldown, for
\* cooldown_duration seconds from the time of the call
MarkedStep ==
    MarkedExhausted =>
        \A a \in 0..(Len(account_keys) - 1) :
            IF KeyOf(api_key, a)
            THEN /\ a \in DOMAIN account_cooldowns'
                 /\ account_cooldowns'[a] = now' + cooldown_duration
            ELSE /\ (a \in DOMAIN account_cooldowns') = (a \in DOMAIN account_cooldowns)
                 /\ a \in DOMAIN account_cooldowns =>
                       account_cooldowns'[a] = account_cooldowns[a]

\* C30: a key returned by get_active_key belongs to an account that is not
\* in cooldown when it is returned, current_acc_idx is left on that
\* account so that mark_current_account_exhausted puts exactly that
\* account in cooldown, and the keys taken from one account follow its
\* key list round-robin; no other step hands out a key.
C30_KeyFromAvailableAccount ==
    [][/\ ReturnedKeyStep
       /\ MarkedStep
       /\ ~KeyReturned => UNCHANGED <<current_key_indices, api_key>>
    ]_vars

\* with two accounts, the third key taken from the first account is its
\* first key again, returned after the account's cooldown has passed
C30_Witness ==
    /\ an_pc = "request"
    /\ Len(account_keys) = 2
    /\ current_acc_idx = 0
    /\ current_key_indices[1] = 3
    /\ api_key = "A1"
    /\ 0 \in DOMAIN account_cooldowns
    /\ now > account_cooldowns[0]
    /\ 1 \in DOMAIN account_cooldowns

====
